---- MODULE Spec2Model ----
(***************************************************************************)
(* The voidkey CLI: one invocation of the `mint` command                   *)
(* (cmd/mint.go, mintCredentialsWithFlags), of the `list-idps` command     *)
(* (cmd/list.go) or of a `config` subcommand, together with the transport  *)
(* client they call and the process exit of cmd/root.go (Spec); the mint   *)
(* command of the revision without --keyset (KeysOnlySpec); the keysets    *)
(* commands (KeysetsSpec); and outputAsJSON on its own (OutputSpec).       *)
(*                                                                         *)
(* Strings printed with a format are modelled as tuples: the format first, *)
(* then its arguments.  A Go pointer result is a sequence: <<>> is nil and *)
(* <<v>> points to v.  A Go error is a tuple too, <<>> being nil.          *)
(***************************************************************************)
EXTENDS Integers, Sequences, FiniteSets, TLC

(***************************************************************************)
(* Bounds of the model.                                                    *)
(***************************************************************************)
MaxKeys == 1
MaxDuration == 1
MaxStringLen == 2

(***************************************************************************)
(* Program constants.                                                      *)
(***************************************************************************)
StatusOK == 200
HelloWorldIdp == "hello-world"
HelloWorldToken == "cli-hello-world-token"
DefaultServer == "http://localhost:3000"
DefaultTokenEnv == "OIDC_TOKEN"

Nil == <<>>
NoError == <<>>

(***************************************************************************)
(* Input domains.                                                          *)
(***************************************************************************)
EnvNames == {"OIDC_TOKEN", "GITHUB_TOKEN"}
EnvValue(n) == IF n = "OIDC_TOKEN" THEN "B" ELSE "C"
EnvEntries(n) ==
    { [set |-> FALSE, val |-> ""], [set |-> TRUE, val |-> ""],
      [set |-> TRUE, val |-> EnvValue(n)] }
Environments ==
    { e \in [EnvNames -> [set : BOOLEAN, val : {"", "B", "C"}]] :
        \A n \in EnvNames : e[n] \in EnvEntries(n) }
FlagTokens == {"", "A"}
IdpNames == {"", HelloWorldIdp, "auth0"}
Keysets == {"", "dev"}
KeyNames == {"K1"}
Formats == {"env", "json", "yaml"}
RECURSIVE SeqsUpTo(_, _)
SeqsUpTo(S, n) ==
    IF n = 0 THEN {<<>>}
    ELSE SeqsUpTo(S, n - 1) \cup
         { Append(s, x) : s \in { t \in SeqsUpTo(S, n - 1) : Len(t) = n - 1 }, x \in S }
\* The characters of a credential field: a plain letter, the letter n, and
\* the characters encoding/json escapes (quote, backslash, newline, <).
Chars == {"a", "n", "\"", "\\", "\n", "<"}
Strings == SeqsUpTo(Chars, MaxStringLen)
\* --duration is an int flag: a negative value is accepted by the parser.
Durations == -1..MaxDuration
FlagSets ==
    [ token : FlagTokens, format : Formats, idpName : IdpNames, keyset : Keysets,
      keys : SeqsUpTo(KeyNames, MaxKeys), duration : Durations, all : BOOLEAN ]

VARIABLES
    previous,   \* the invocation that ran before this one: <<>> when none
    command,    \* the subcommand this invocation runs
    args,       \* the positional arguments of a config subcommand
    env,        \* the process environment: name -> [set, val]
    configFile, \* ~/.voidkey/config.yaml as it is on disk
    loads,      \* the number of times LoadConfig has been called
    config,     \* the configuration loaded at start-up
    serverFlag, \* --server on the command line: <<>> when absent, <<url>>
    serverURL,  \* the package variable the --server flag is bound to
    client,     \* the VoidkeyClient handed to the commands
    flags,      \* the parsed flags of the mint command
    pc,         \* the stage of mintCredentialsWithFlags that runs next
    token,      \* the local variable `token`
    stderr,     \* lines written to cmd.ErrOrStderr(), in order
    stdout,     \* lines written to cmd.OutOrStdout(), in order
    calls,      \* the transport-client methods called, in order
    requests,   \* the HTTP requests handed to the HTTP client, in order
    returns,    \* what each finished transport call returned, in order
    credentials,  \* the *CloudCredentials MintCredentials returned
    providers,    \* the []IdpProvider ListIdpProviders returned
    keyResponses, \* the map MintKeys returned
    keysetVars,   \* the map GetKeysetKeysWithToken returned
    err,        \* the error mintCredentialsWithFlags returned (<<>> = nil)
    exitCode    \* the process exit code, -1 while running

vars == << previous, command, args, env, configFile, loads, config, serverFlag, serverURL, client, flags, pc, token, stderr, stdout, calls,
           requests, returns, credentials, providers, keyResponses, keysetVars,
           err, exitCode >>

(***************************************************************************)
(* os.Getenv: an unset variable and one set to "" both read as "".         *)
(***************************************************************************)
Getenv(e, name) == IF name \in DOMAIN e /\ e[name].set THEN e[name].val ELSE ""

(***************************************************************************)
(* Token resolution, mint.go:78-95.  Returns the token and the diagnostics *)
(* written to stderr.                                                      *)
(***************************************************************************)
\* A resolution that consults GITHUB_TOKEN before OIDC_TOKEN.
ResolveEnvTokenGithubFirst(flagToken, e) ==
    IF flagToken # "" THEN [token |-> flagToken, diag |-> <<>>]
    ELSE IF Getenv(e, "GITHUB_TOKEN") # ""
         THEN [token |-> Getenv(e, "GITHUB_TOKEN"),
               diag |-> << <<"Using GITHUB_TOKEN environment variable">> >>]
         ELSE IF Getenv(e, "OIDC_TOKEN") # ""
              THEN [token |-> Getenv(e, "OIDC_TOKEN"),
                    diag |-> << <<"Using OIDC_TOKEN environment variable">> >>]
              ELSE [token |-> "", diag |-> <<>>]

\* A resolution that reports the environment variable it finds set even
\* when the flag supplied the token.
ResolveEnvTokenReportingAlways(flagToken, e) ==
    IF Getenv(e, "OIDC_TOKEN") # ""
    THEN [token |-> IF flagToken # "" THEN flagToken ELSE Getenv(e, "OIDC_TOKEN"),
          diag |-> << <<"Using OIDC_TOKEN environment variable">> >>]
    ELSE IF Getenv(e, "GITHUB_TOKEN") # ""
    THEN [token |-> IF flagToken # "" THEN flagToken ELSE Getenv(e, "GITHUB_TOKEN"),
          diag |-> << <<"Using GITHUB_TOKEN environment variable">> >>]
    ELSE [token |-> flagToken, diag |-> <<>>]

ResolveEnvToken(flagToken, e) ==
    IF flagToken # "" THEN [token |-> flagToken, diag |-> <<>>]
    ELSE IF Getenv(e, "OIDC_TOKEN") # ""
         THEN [token |-> Getenv(e, "OIDC_TOKEN"),
               diag |-> << <<"Using OIDC_TOKEN environment variable">> >>]
         ELSE IF Getenv(e, "GITHUB_TOKEN") # ""
              THEN [token |-> Getenv(e, "GITHUB_TOKEN"),
                    diag |-> << <<"Using GITHUB_TOKEN environment variable">> >>]
              ELSE [token |-> "", diag |-> <<>>]

\* A default that is applied for the hello-world IdP whatever was resolved.
HelloWorldDefaultAlways(r, idpName) ==
    IF idpName = HelloWorldIdp
    THEN [token |-> HelloWorldToken,
          diag |-> Append(r.diag, <<"Using hello-world IdP with default token">>)]
    ELSE r

HelloWorldDefault(r, idpName) ==
    IF r.token = "" /\ idpName = HelloWorldIdp
    THEN [token |-> HelloWorldToken,
          diag |-> Append(r.diag, <<"Using hello-world IdP with default token">>)]
    ELSE r

(***************************************************************************)
(* JSON.  A body is [kind, text, val, arr]: "text" is not JSON, "object"   *)
(* is a JSON object (val: member name -> value), "array" a JSON array      *)
(* (arr: its elements).  encoding/json with `omitempty` leaves an empty    *)
(* member out.                                                             *)
(***************************************************************************)
Member(name, v, omit) == IF omit THEN <<>> ELSE name :> v

MarshalMintRequest(r) ==
    Member("oidcToken", r.OidcToken, FALSE)
    @@ Member("idpName", r.IdpName, r.IdpName = "")
    @@ Member("keyset", r.Keyset, r.Keyset = "")

MarshalMintKeysRequest(r) ==
    Member("oidcToken", r.OidcToken, FALSE)
    @@ Member("idpName", r.IdpName, r.IdpName = "")
    @@ Member("keys", r.Keys, Len(r.Keys) = 0)
    @@ Member("duration", r.Duration, r.Duration = 0)
    @@ Member("all", r.All, ~r.All)

\* The fields of CloudCredentials are sequences of characters, <<>> being
\* the empty string; in a JSON document they stand as the content of a string
\* literal.  encoding/json writes a quote as \", a backslash as \\, a newline
\* as \n and < as \u003c, and reads them back.
\* An encoder that copies the characters as they are.
EncodeStringVerbatim(str) == str

RECURSIVE EncodeString(_)
EncodeString(str) ==
    IF str = <<>> THEN <<>>
    ELSE LET c == Head(str)
         IN  (IF c = "\"" THEN <<"\\", "\"">>
              ELSE IF c = "\\" THEN <<"\\", "\\">>
              ELSE IF c = "\n" THEN <<"\\", "n">>
              ELSE IF c = "<" THEN <<"\\", "u", "0", "0", "3", "c">>
              ELSE <<c>>)
             \o EncodeString(Tail(str))

RECURSIVE DecodeString(_)
DecodeString(lit) ==
    IF lit = <<>> THEN <<>>
    ELSE IF Head(lit) # "\\" \/ Len(lit) = 1
    THEN <<Head(lit)>> \o DecodeString(Tail(lit))
    ELSE IF lit[2] = "n" THEN <<"\n">> \o DecodeString(SubSeq(lit, 3, Len(lit)))
    ELSE IF lit[2] = "u" /\ Len(lit) >= 6
    THEN (IF SubSeq(lit, 3, 6) = <<"0", "0", "3", "c">> THEN <<"<">>
          ELSE <<"?">>)
         \o DecodeString(SubSeq(lit, 7, Len(lit)))
    ELSE <<lit[2]>> \o DecodeString(SubSeq(lit, 3, Len(lit)))

MarshalCloudCredentials(c) ==
    Member("accessKey", EncodeString(c.AccessKey), FALSE)
    @@ Member("secretKey", EncodeString(c.SecretKey), FALSE)
    @@ Member("sessionToken", EncodeString(c.SessionToken), c.SessionToken = <<>>)
    @@ Member("expiresAt", EncodeString(c.ExpiresAt), FALSE)

StringMember(obj, name) == IF name \in DOMAIN obj THEN obj[name] ELSE ""
DecodedMember(obj, name) ==
    IF name \in DOMAIN obj THEN DecodeString(obj[name]) ELSE <<>>

UnmarshalCloudCredentials(obj) ==
    [ AccessKey |-> DecodedMember(obj, "accessKey"),
      SecretKey |-> DecodedMember(obj, "secretKey"),
      SessionToken |-> DecodedMember(obj, "sessionToken"),
      ExpiresAt |-> DecodedMember(obj, "expiresAt") ]

\* json.Unmarshal(body, &target): whether it succeeds, and the value it stores.
\* The JSON value null is accepted for every target and stores nothing.
CanUnmarshal(body, target) ==
    \/ body.kind = "null"
    \/ IF target = "[]IdpProvider" THEN body.kind = "array" ELSE body.kind = "object"

UnmarshalKeyCredentialResponse(obj) ==
    [ Credentials |-> IF "credentials" \in DOMAIN obj THEN obj["credentials"] ELSE <<>>,
      ExpiresAt |-> StringMember(obj, "expiresAt") ]

UnmarshalIdpProvider(obj) ==
    [ Name |-> StringMember(obj, "name"),
      IsDefault |-> IF "isDefault" \in DOMAIN obj THEN obj["isDefault"] ELSE FALSE ]

Unmarshal(body, target) ==
    IF target = "CloudCredentials" THEN UnmarshalCloudCredentials(body.val)
    ELSE IF target = "map[string]KeyCredentialResponse"
    THEN [k \in DOMAIN body.val |-> UnmarshalKeyCredentialResponse(body.val[k])]
    ELSE IF target = "[]IdpProvider"
    THEN [i \in 1..Len(body.arr) |-> UnmarshalIdpProvider(body.arr[i])]
    ELSE body.val

(***************************************************************************)
(* What the HTTP client can hand back for one request: an error, or a      *)
(* response with a status and a body whose read may fail.                  *)
(***************************************************************************)
Statuses == {StatusOK, 400, 500}
TextBody == [kind |-> "text", text |-> "Bad Request", val |-> <<>>, arr |-> <<>>]
NoBody == [kind |-> "text", text |-> "", val |-> <<>>, arr |-> <<>>]
NullBody == [kind |-> "null", text |-> "", val |-> <<>>, arr |-> <<>>]
ObjectBody(v) == [kind |-> "object", text |-> "", val |-> v, arr |-> <<>>]
ArrayBody(a) == [kind |-> "array", text |-> "", val |-> <<>>, arr |-> a]
CredsWithSession ==
    [AccessKey |-> <<"A", "K", "I", "A">>, SecretKey |-> <<"w", "<", "\"">>,
     SessionToken |-> <<"t", "o", "k">>, ExpiresAt |-> <<"2", "0", "2", "5">>]
CredsNoSession == [CredsWithSession EXCEPT !.SessionToken = <<>>]
CredsBodies ==
    { ObjectBody(MarshalCloudCredentials(c)) :
        c \in {CredsWithSession, CredsNoSession} } \cup {ArrayBody(<<>>)}
KeyResponseJSON(creds, expiresAt) ==
    ("credentials" :> creds) @@ ("expiresAt" :> expiresAt)
KeyResponsesBodies ==
    { ObjectBody(<<>>),
      ObjectBody("K1" :> KeyResponseJSON(("K1_ID" :> "id1") @@ ("K1_SECRET" :> "s1"),
                                         "2025-01-01T12:00:00Z")),
      ObjectBody(("K1" :> KeyResponseJSON(("K1_ID" :> "id1") @@ ("K1_SECRET" :> "s1"),
                                          "2025-01-01T12:00:00Z"))
                 @@ ("K2" :> KeyResponseJSON("K2_TOKEN" :> "t2",
                                             "2025-01-02T12:00:00Z"))),
      \* two keys whose credentials name the same variable
      ObjectBody(("K1" :> KeyResponseJSON("AWS_ACCESS_KEY_ID" :> "id1",
                                          "2025-01-01T12:00:00Z"))
                 @@ ("K2" :> KeyResponseJSON("AWS_ACCESS_KEY_ID" :> "id2",
                                             "2025-01-02T12:00:00Z"))) }
KeysetsBodies ==
    { NullBody, ObjectBody(<<>>),
      ObjectBody("dev" :> ("ACCESS_LEVEL" :> "admin")),
      ObjectBody(("dev" :> ("ACCESS_LEVEL" :> "admin"))
                 @@ ("prod" :> (("ACCESS_LEVEL" :> "ro") @@ ("REGION" :> "eu")))) }
KeysetBodies ==
    { ObjectBody(<<>>), ObjectBody("ACCESS_LEVEL" :> "admin"),
      \* a keyset that names one of the core variables
      ObjectBody("AWS_ACCESS_KEY_ID" :> <<"o", "v", "r">>) }
ProviderJSON(name, isDefault) == ("name" :> name) @@ ("isDefault" :> isDefault)
ProvidersBodies ==
    { ArrayBody(<<>>),
      ArrayBody(<< ProviderJSON("auth0", TRUE) >>),
      ArrayBody(<< ProviderJSON("auth0", FALSE), ProviderJSON("github", FALSE) >>),
      ArrayBody(<< ProviderJSON("github", FALSE), ProviderJSON("auth0", TRUE) >>),
      ObjectBody(<<>>) }

Outcomes(bodies) ==
    { [connErr |-> TRUE, readErr |-> FALSE, status |-> 0, body |-> NoBody] }
    \cup { [connErr |-> FALSE, readErr |-> TRUE, status |-> s, body |-> NoBody] :
             s \in Statuses }
    \cup { [connErr |-> FALSE, readErr |-> FALSE, status |-> s, body |-> b] :
             s \in Statuses, b \in bodies \cup {TextBody} }

\* string(body): the raw text of a body
Raw(body) == IF body.kind = "text" THEN <<body.text>> ELSE <<body.kind, body.val, body.arr>>

(***************************************************************************)
(* What a transport operation does once the HTTP client has returned:      *)
(* connection error, body read, status, parse, in this order.              *)
(***************************************************************************)
\* A transport that treats only 5xx statuses as server errors.
RespondServerErrorsOnly(o, server, parseMessage, target) ==
    IF o.connErr
    THEN [result |-> Nil,
          err |-> <<"failed to connect to broker server at %s: %w", server>>]
    ELSE IF o.readErr
    THEN [result |-> Nil, err |-> <<"failed to read response: %w">>]
    ELSE IF o.status >= 500
    THEN [result |-> Nil,
          err |-> <<"server returned error %d: %s", o.status, Raw(o.body)>>]
    ELSE IF ~CanUnmarshal(o.body, target)
    THEN [result |-> Nil, err |-> <<parseMessage>>]
    ELSE [result |-> <<Unmarshal(o.body, target)>>, err |-> NoError]

\* A transport that parses the body before it looks at the status.
RespondParseFirst(o, server, parseMessage, target) ==
    IF o.connErr
    THEN [result |-> Nil,
          err |-> <<"failed to connect to broker server at %s: %w", server>>]
    ELSE IF o.readErr
    THEN [result |-> Nil, err |-> <<"failed to read response: %w">>]
    ELSE IF ~CanUnmarshal(o.body, target)
    THEN [result |-> Nil, err |-> <<parseMessage>>]
    ELSE IF o.status # StatusOK
    THEN [result |-> Nil,
          err |-> <<"server returned error %d: %s", o.status, Raw(o.body)>>]
    ELSE [result |-> <<Unmarshal(o.body, target)>>, err |-> NoError]

Respond(o, server, parseMessage, target) ==
    IF o.connErr
    THEN [result |-> Nil,
          err |-> <<"failed to connect to broker server at %s: %w", server>>]
    ELSE IF o.readErr
    THEN [result |-> Nil, err |-> <<"failed to read response: %w">>]
    ELSE IF o.status # StatusOK
    THEN [result |-> Nil,
          err |-> <<"server returned error %d: %s", o.status, Raw(o.body)>>]
    ELSE IF ~CanUnmarshal(o.body, target)
    THEN [result |-> Nil, err |-> <<parseMessage>>]
    ELSE [result |-> <<Unmarshal(o.body, target)>>, err |-> NoError]

\* The error the HTTP client returns from a Post or a Get that got no
\* response.  The client of the commands is net/http's http.Client, whose
\* errors are *url.Error values: their text names the method and quotes the
\* URL of the request, query string included.
TransportError(req) ==
    <<"%s %q: %s", IF req.method = "GET" THEN "Get" ELSE "Post", req.url,
      "dial tcp: connect: connection refused">>

\* `%w` in the connection error of a transport operation: the text of the
\* error ends with the text of the error the HTTP client returned.
WithCause(r, req) ==
    IF r.err # NoError /\ r.err[1] = "failed to connect to broker server at %s: %w"
    THEN [r EXCEPT !.err = Append(@, TransportError(req))]
    ELSE r

\* A close that is made only at the end of the successful path.
CloseOnSuccessOnly(o) ==
    IF ~o.connErr /\ ~o.readErr /\ o.status = StatusOK THEN 1 ELSE 0

\* `defer resp.Body.Close()`, registered once the HTTP client has returned a
\* response: the number of times the body is closed when the operation returns.
DeferredClose(o) == IF o.connErr THEN 0 ELSE 1

\* VoidkeyClient.MintCredentials and VoidkeyClient.ListIdpProviders
MintCredentials(o, server) ==
    Respond(o, server, "failed to parse credentials response: %w", "CloudCredentials")

ListIdpProviders(o, server) ==
    Respond(o, server, "failed to parse providers response: %w", "[]IdpProvider")

\* VoidkeyClient.MintKeys and VoidkeyClient.GetKeysetKeysWithToken
MintKeys(o, server) ==
    Respond(o, server, "failed to parse key responses: %w",
            "map[string]KeyCredentialResponse")

\* A transport operation whose result is a map: json.Unmarshal leaves the
\* map nil when the body is the JSON value null, and the operation returns
\* the nil map without an error.
RespondMap(o, server, parseMessage, target) ==
    LET r == Respond(o, server, parseMessage, target)
    IN  IF r.err = NoError /\ o.body.kind = "null" THEN [r EXCEPT !.result = Nil]
        ELSE r

GetKeysetKeysWithToken(o, server) ==
    RespondMap(o, server, "failed to parse keyset keys response: %w", "map[string]string")

GetKeysetKeys(o, server) ==
    RespondMap(o, server, "failed to parse keyset keys response: %w", "map[string]string")

GetAvailableKeysetsWithToken(o, server) ==
    RespondMap(o, server, "failed to parse keysets response: %w",
               "map[string]map[string]string")

GetAvailableKeysets(o, server) ==
    RespondMap(o, server, "failed to parse keysets response: %w",
               "map[string]map[string]string")

\* The requests the transport operations issue.
ListIdpProvidersRequest(server) ==
    [ method |-> "GET", url |-> <<server, "/credentials/idp-providers">>,
      contentType |-> "", body |-> <<>> ]

MintCredentialsRequest(server, oidcToken, idpName, keyset) ==
    [ method |-> "POST", url |-> <<server, "/credentials/mint">>,
      contentType |-> "application/json",
      body |-> MarshalMintRequest(
                 [OidcToken |-> oidcToken, IdpName |-> idpName, Keyset |-> keyset]) ]

MintKeysRequest(server, oidcToken, idpName, keys, duration, all) ==
    [ method |-> "POST", url |-> <<server, "/credentials/mint-keys">>,
      contentType |-> "application/json",
      body |-> MarshalMintKeysRequest(
                 [OidcToken |-> oidcToken, IdpName |-> idpName, Keys |-> keys,
                  Duration |-> duration, All |-> all]) ]

GetKeysetKeysWithTokenRequest(server, oidcToken, keyset) ==
    [ method |-> "GET",
      url |-> <<server, "/credentials/keysets/keys?token=%s&keyset=%s", oidcToken, keyset>>,
      contentType |-> "", body |-> <<>> ]

GetKeysetKeysRequest(server, subject, keyset) ==
    [ method |-> "GET",
      url |-> <<server, "/credentials/keysets/keys?subject=%s&keyset=%s", subject, keyset>>,
      contentType |-> "", body |-> <<>> ]

GetAvailableKeysetsWithTokenRequest(server, oidcToken) ==
    [ method |-> "GET", url |-> <<server, "/credentials/keysets?token=%s", oidcToken>>,
      contentType |-> "", body |-> <<>> ]

GetAvailableKeysetsRequest(server, subject) ==
    [ method |-> "GET", url |-> <<server, "/credentials/keysets?subject=%s", subject>>,
      contentType |-> "", body |-> <<>> ]

(***************************************************************************)
(* The mint command, mint.go:76-180.                                       *)
(***************************************************************************)
\* A mode selection that looks at --all alone.
KeyBasedAllOnly(f) == f.all

KeyBased(f) == Len(f.keys) > 0 \/ f.all

IdpDiagnostic(idpName) ==
    IF idpName # "" THEN <<"Using IdP provider: %s", idpName>>
    ELSE <<"Using server default IdP provider">>

\* Diagnostics that report every duration other than zero, in both modes.
ModeDiagnosticsAnyDuration(f) ==
    (IF KeyBased(f)
     THEN << IF f.all THEN <<"Minting all available keys">>
             ELSE <<"Minting keys: %v", f.keys>> >>
     ELSE << IF f.keyset # "" THEN <<"[LEGACY] Using keyset: %s", f.keyset>>
             ELSE <<"[LEGACY] Using all available keys from identity keysets">> >>)
    \o (IF f.duration # 0
        THEN << <<"Duration override: %d seconds", f.duration>> >>
        ELSE <<>>)

ModeDiagnostics(f) ==
    IF KeyBased(f)
    THEN << IF f.all THEN <<"Minting all available keys">>
            ELSE <<"Minting keys: %v", f.keys>> >>
         \o (IF f.duration > 0
             THEN << <<"Duration override: %d seconds", f.duration>> >>
             ELSE <<>>)
    ELSE << IF f.keyset # "" THEN <<"[LEGACY] Using keyset: %s", f.keyset>>
            ELSE <<"[LEGACY] Using all available keys from identity keysets">> >>

DefaultFlags ==
    [ token |-> "", format |-> "env", idpName |-> "", keyset |-> "", keys |-> <<>>,
      duration |-> 0, all |-> FALSE ]

(***************************************************************************)
(* The configuration file, config.go.  A file is [state, doc]: it is       *)
(* missing, unreadable, not YAML, or holds a YAML mapping doc (member name *)
(* -> string); "nohome" is a process without a home directory, for which   *)
(* GetConfigPath fails.                                                    *)
(***************************************************************************)
ConfiguredServer == "http://configured:3000"
NoFile(state) == [state |-> state, doc |-> <<>>]
YAMLFile(doc) == [state |-> "ok", doc |-> doc]
YAMLMember(name, values) == {<<>>} \cup { name :> v : v \in values }
YAMLDocs ==
    { s @@ i @@ t : s \in YAMLMember("server", {"", ConfiguredServer}),
                    i \in YAMLMember("idp_name", {"auth0"}),
                    t \in YAMLMember("token_env", {"", "GITHUB_TOKEN"}) }
ConfigFiles ==
    { NoFile("missing"), NoFile("nohome"), NoFile("unreadable"), NoFile("invalid") }
    \cup { YAMLFile(d) : d \in YAMLDocs }
\* The files a mint or list-idps invocation is started with.
BrokerConfigFiles ==
    { NoFile("missing"),
      YAMLFile(("server" :> ConfiguredServer) @@ ("token_env" :> "GITHUB_TOKEN")) }
ServerFlags == { <<>>, <<"http://broker:8080">> }

\* config.go:19-24
DefaultConfig == [Server |-> DefaultServer, IdpName |-> "", TokenEnv |-> DefaultTokenEnv]

\* yaml.Unmarshal into Config, config.go:12-16 and 54
UnmarshalConfig(doc) ==
    [ Server |-> StringMember(doc, "server"),
      IdpName |-> StringMember(doc, "idp_name"),
      TokenEnv |-> StringMember(doc, "token_env") ]

\* yaml.Marshal of Config, config.go:12-16 and 83
MarshalConfig(c) ==
    Member("server", c.Server, FALSE)
    @@ Member("idp_name", c.IdpName, c.IdpName = "")
    @@ Member("token_env", c.TokenEnv, c.TokenEnv = "")

\* A load that returns what the file holds, without the defaults.
LoadConfigAsWritten(file) ==
    IF file.state = "nohome"
    THEN [config |-> Nil, err |-> <<"failed to get home directory: %w">>]
    ELSE IF file.state = "missing"
    THEN [config |-> <<DefaultConfig>>, err |-> NoError]
    ELSE IF file.state = "unreadable"
    THEN [config |-> Nil, err |-> <<"failed to read config file: %w">>]
    ELSE IF file.state = "invalid"
    THEN [config |-> Nil, err |-> <<"failed to parse config file: %w">>]
    ELSE [config |-> <<UnmarshalConfig(file.doc)>>, err |-> NoError]

\* config.go:38-68
LoadConfig(file) ==
    IF file.state = "nohome"
    THEN [config |-> Nil, err |-> <<"failed to get home directory: %w">>]
    ELSE IF file.state = "missing"
    THEN [config |-> <<DefaultConfig>>, err |-> NoError]
    ELSE IF file.state = "unreadable"
    THEN [config |-> Nil, err |-> <<"failed to read config file: %w">>]
    ELSE IF file.state = "invalid"
    THEN [config |-> Nil, err |-> <<"failed to parse config file: %w">>]
    ELSE LET c == UnmarshalConfig(file.doc)
         IN  [config |-> << [ c EXCEPT
                                !.Server = IF @ = "" THEN DefaultServer ELSE @,
                                !.TokenEnv = IF @ = "" THEN DefaultTokenEnv ELSE @ ] >>,
              err |-> NoError]

\* root.go:37-42: the configuration the process starts with
StartupConfig(file) ==
    IF LoadConfig(file).err # NoError THEN DefaultConfig
    ELSE LoadConfig(file).config[1]

\* root.go:35-49 with the commands of mint.go and list.go: the state after
\* package initialisation.  The --server flag is registered with the
\* configured server as its default, and initCommands builds the client the
\* commands are created with from the flag variable as it is then.
NewVoidkeyClient(url) == [serverURL |-> url]

BrokerCommands == {"mint", "list-idps"}
ConfigCommands == {"config set", "config get", "config list"}
ConfigKeys == {"server", "idp", "token-env", "bogus"}
ConfigValues == {"", "GITHUB_TOKEN"}
ConfigArgs(cmd) ==
    IF cmd = "config set" THEN { <<k, v>> : k \in ConfigKeys, v \in ConfigValues }
    ELSE IF cmd = "config get" THEN { <<k>> : k \in ConfigKeys }
    ELSE {<<>>}

Init ==
    /\ previous = <<>>
    /\ command \in BrokerCommands \cup ConfigCommands
    /\ args \in ConfigArgs(command)
    /\ env \in Environments
    /\ configFile \in IF command \in BrokerCommands THEN BrokerConfigFiles
                      ELSE ConfigFiles
    /\ loads = 1
    /\ config = StartupConfig(configFile)
    /\ serverFlag \in IF command \in BrokerCommands THEN ServerFlags ELSE {<<>>}
    /\ serverURL = config.Server
    /\ client = NewVoidkeyClient(serverURL)
    /\ flags \in IF command = "mint" THEN FlagSets ELSE {DefaultFlags}
    /\ pc = "ParseFlags"
    /\ token = ""
    /\ stderr = <<>>
    /\ stdout = <<>>
    /\ calls = <<>>
    /\ requests = <<>>
    /\ returns = <<>>
    /\ credentials = Nil
    /\ providers = <<>>
    /\ keyResponses = <<>>
    /\ keysetVars = <<>>
    /\ err = NoError
    /\ exitCode = -1

\* cobra parses the command line when rootCmd.Execute runs (root.go:29): a
\* --server given there is stored in the flag variable.
FirstStage(cmd) ==
    IF cmd \in {"mint", "mint (keys only)"} THEN "ResolveToken"
    ELSE IF cmd = "list-idps" THEN "ListIdpProviders"
    ELSE cmd

ParseFlags ==
    /\ pc = "ParseFlags"
    /\ serverURL' = IF serverFlag # <<>> THEN serverFlag[1] ELSE serverURL
    /\ pc' = FirstStage(command)
    /\ UNCHANGED << previous, command, args, env, configFile, loads, config, serverFlag, client,
                    flags, token, stderr, stdout, calls, requests, returns,
                    credentials, providers, keyResponses, keysetVars, err, exitCode >>

\* mint.go:78-95
ResolveToken ==
    /\ pc = "ResolveToken"
    /\ LET r == HelloWorldDefault(ResolveEnvToken(flags.token, env), flags.idpName)
       IN  /\ token' = r.token
           /\ stderr' = stderr \o r.diag
    /\ pc' = "ValidateToken"
    /\ UNCHANGED << previous, command, args, env, configFile, loads, config, serverFlag, serverURL, client, flags, stdout, calls, requests,
                    returns, credentials, keyResponses, keysetVars, err, exitCode,
                    providers >>

\* A validation that lets every token through.
TokenMissingNever(t) == FALSE

\* mint.go:98-108
TokenMissing(t) == t = ""

ValidateToken ==
    /\ pc = "ValidateToken"
    /\ IF TokenMissing(token)
       THEN /\ err' = <<"OIDC token is required">>
            /\ pc' = "Error"
       ELSE /\ err' = err
            /\ pc' = "ResolveIdp"
    /\ UNCHANGED << previous, command, args, env, configFile, loads, config, serverFlag, serverURL, client, flags, token, stderr, stdout, calls,
                    requests, returns, credentials, keyResponses, keysetVars,
                    exitCode,
                    providers >>

\* A step that reports the IdP and goes straight to the transport call of
\* the legacy mode, leaving the mode selection out.
ResolveIdpSkippingSelectMode ==
    /\ pc = "ResolveIdp"
    /\ stderr' = Append(stderr, IdpDiagnostic(flags.idpName))
    /\ pc' = "MintCredentials"
    /\ UNCHANGED << previous, command, args, env, configFile, loads, config, serverFlag, serverURL, client, flags, token, stdout, calls, requests,
                    returns, credentials, keyResponses, keysetVars, err, exitCode,
                    providers >>

\* mint.go:111-115
ResolveIdp ==
    /\ pc = "ResolveIdp"
    /\ stderr' = Append(stderr, IdpDiagnostic(flags.idpName))
    /\ pc' = "SelectMode"
    /\ UNCHANGED << previous, command, args, env, configFile, loads, config, serverFlag, serverURL, client, flags, token, stdout, calls, requests,
                    returns, credentials, keyResponses, keysetVars, err, exitCode,
                    providers >>

\* mint.go:118-128 and 145-151
SelectMode ==
    /\ pc = "SelectMode"
    /\ stderr' = stderr \o ModeDiagnostics(flags)
    /\ pc' = IF KeyBased(flags) THEN "MintKeys" ELSE "MintCredentials"
    /\ UNCHANGED << previous, command, args, env, configFile, loads, config, serverFlag, serverURL, client, flags, token, stdout, calls, requests,
                    returns, credentials, keyResponses, keysetVars, err, exitCode,
                    providers >>

\* A key-based call whose POST also carries the legacy keyset.
CallMintKeysWithKeyset ==
    /\ pc = "MintKeys"
    /\ calls' = Append(calls, [op |-> "MintKeys",
                               args |-> <<token, flags.idpName, flags.keys,
                                          flags.duration, flags.all>>])
    /\ requests' = Append(requests,
                      [ MintKeysRequest(client.serverURL, token, flags.idpName, flags.keys,
                                        flags.duration, flags.all)
                        EXCEPT !.body = @ @@ Member("keyset", flags.keyset,
                                                    flags.keyset = "") ])
    /\ pc' = "AwaitMintKeys"
    /\ UNCHANGED << previous, command, args, env, configFile, loads, config, serverFlag, serverURL, client, flags, token, stderr, stdout,
                    returns, credentials, providers, keyResponses, keysetVars, err,
                    exitCode >>

\* mint.go:131: the call and the POST it issues
CallMintKeys ==
    /\ pc = "MintKeys"
    /\ calls' = Append(calls, [op |-> "MintKeys",
                               args |-> <<token, flags.idpName, flags.keys,
                                          flags.duration, flags.all>>])
    /\ requests' = Append(requests,
                      MintKeysRequest(client.serverURL, token, flags.idpName, flags.keys,
                                      flags.duration, flags.all))
    /\ pc' = "AwaitMintKeys"
    /\ UNCHANGED << previous, command, args, env, configFile, loads, config, serverFlag, serverURL, client, flags, token, stderr, stdout, returns,
                    credentials, keyResponses, keysetVars, err, exitCode,
                    providers >>

\* mint.go:131-134: MintKeys returns
ReturnMintKeys ==
    /\ pc = "AwaitMintKeys"
    /\ \E o \in Outcomes(KeyResponsesBodies) :
         LET r == WithCause(MintKeys(o, client.serverURL), requests[Len(requests)])
         IN  /\ returns' = Append(returns, [op |-> "MintKeys", outcome |-> o,
                                            result |-> r.result, err |-> r.err,
                                            closed |-> DeferredClose(o)])
             /\ IF r.err # NoError
                THEN /\ err' = r.err
                     /\ pc' = "Error"
                     /\ UNCHANGED keyResponses
                ELSE /\ keyResponses' = r.result[1]
                     /\ pc' = "RenderKeys"
                     /\ UNCHANGED err
    /\ UNCHANGED << previous, command, args, env, configFile, loads, config, serverFlag, serverURL, client, flags, token, stderr, stdout, calls,
                    requests, credentials, keysetVars, exitCode,
                    providers >>

\* mint.go:154: the call and the POST it issues
CallMintCredentials ==
    /\ pc = "MintCredentials"
    /\ calls' = Append(calls, [op |-> "MintCredentials",
                               args |-> <<token, flags.idpName, flags.keyset>>])
    /\ requests' = Append(requests,
                      MintCredentialsRequest(client.serverURL, token, flags.idpName,
                                             flags.keyset))
    /\ pc' = "AwaitMintCredentials"
    /\ UNCHANGED << previous, command, args, env, configFile, loads, config, serverFlag, serverURL, client, flags, token, stderr, stdout, returns,
                    credentials, keyResponses, keysetVars, err, exitCode,
                    providers >>

\* A lookup that is made whether or not a keyset was asked for.
WantsKeysetLookupAlways(f) == TRUE

\* mint.go:161: whether the keyset lookup follows a successful mint
WantsKeysetLookup(f) == f.keyset # ""

\* mint.go:154-161: MintCredentials returns
ReturnMintCredentials ==
    /\ pc = "AwaitMintCredentials"
    /\ \E o \in Outcomes(CredsBodies) :
         LET r == WithCause(MintCredentials(o, client.serverURL), requests[Len(requests)])
         IN  /\ returns' = Append(returns, [op |-> "MintCredentials", outcome |-> o,
                                            result |-> r.result, err |-> r.err,
                                            closed |-> DeferredClose(o)])
             /\ IF r.err # NoError
                THEN /\ err' = r.err
                     /\ pc' = "Error"
                     /\ UNCHANGED credentials
                ELSE /\ credentials' = r.result
                     /\ pc' = IF WantsKeysetLookup(flags) THEN "GetKeysetKeys"
                              ELSE "Render"
                     /\ UNCHANGED err
    /\ UNCHANGED << previous, command, args, env, configFile, loads, config, serverFlag, serverURL, client, flags, token, stderr, stdout, calls,
                    requests, keyResponses, keysetVars, exitCode,
                    providers >>

\* mint.go:162: the call and the GET it issues
CallGetKeysetKeys ==
    /\ pc = "GetKeysetKeys"
    /\ calls' = Append(calls, [op |-> "GetKeysetKeysWithToken",
                               args |-> <<token, flags.keyset>>])
    /\ requests' = Append(requests,
                      GetKeysetKeysWithTokenRequest(client.serverURL, token, flags.keyset))
    /\ pc' = "AwaitGetKeysetKeys"
    /\ UNCHANGED << previous, command, args, env, configFile, loads, config, serverFlag, serverURL, client, flags, token, stderr, stdout, returns,
                    credentials, keyResponses, keysetVars, err, exitCode,
                    providers >>

\* A lookup whose error ends the command.
KeysetLookupFatal(r) == [ warning |-> <<>>, err |-> r.err, pc |-> "Error" ]

\* mint.go:162-166: an error of the lookup is reported and the command goes on
KeysetLookupFailed(r) ==
    [ warning |-> << <<"Warning: Could not retrieve keyset environment variables: %v",
                       r.err>> >>,
      err |-> NoError, pc |-> "Render" ]

ReturnGetKeysetKeys ==
    /\ pc = "AwaitGetKeysetKeys"
    /\ \E o \in Outcomes(KeysetBodies) :
         LET r == WithCause(GetKeysetKeysWithToken(o, client.serverURL), requests[Len(requests)])
         IN  /\ returns' = Append(returns, [op |-> "GetKeysetKeysWithToken",
                                            outcome |-> o,
                                            result |-> r.result, err |-> r.err,
                                            closed |-> DeferredClose(o)])
             /\ IF r.err # NoError
                THEN /\ stderr' = stderr \o KeysetLookupFailed(r).warning
                     /\ err' = KeysetLookupFailed(r).err
                     /\ pc' = KeysetLookupFailed(r).pc
                     /\ keysetVars' = <<>>
                ELSE /\ keysetVars' = IF r.result = Nil THEN <<>> ELSE r.result[1]
                     /\ pc' = "Render"
                     /\ UNCHANGED << stderr, err >>
    /\ UNCHANGED << previous, command, args, env, configFile, loads, config, serverFlag, serverURL, client, flags, token, stdout, calls, requests,
                    credentials, keyResponses, exitCode,
                    providers >>

(***************************************************************************)
(* Rendering, mint.go:182-231.  Go iterates a map in an unspecified order: *)
(* `order` is the order a `range` visits the keys in.                      *)
(***************************************************************************)
Perms(S) ==
    { p \in [1..Cardinality(S) -> S] :
        \A i, j \in 1..Cardinality(S) : i # j => p[i] # p[j] }

ExportLine(name, value) == <<"export %s=%s", name, value>>

\* A rendering that writes the session-token line whatever the token is.
outputAsEnvVarsAlwaysSession(creds, mapping, order) ==
    [ out |-> << ExportLine("AWS_ACCESS_KEY_ID", creds.AccessKey),
                 ExportLine("AWS_SECRET_ACCESS_KEY", creds.SecretKey),
                 ExportLine("AWS_SESSION_TOKEN", creds.SessionToken),
                 ExportLine("AWS_CREDENTIAL_EXPIRATION", creds.ExpiresAt) >>
              \o [i \in 1..Len(order) |-> ExportLine(order[i], mapping[order[i]])],
      diag |-> << <<"Credentials minted successfully (expires: %s)", creds.ExpiresAt>>,
                  <<"To use: eval \"$(voidkey mint)\"">> >> ]

\* A rendering that writes the success message and the usage hint to
\* stdout, after the export lines.
outputAsEnvVarsHintOnStdout(creds, mapping, order) ==
    [ out |-> << ExportLine("AWS_ACCESS_KEY_ID", creds.AccessKey),
                 ExportLine("AWS_SECRET_ACCESS_KEY", creds.SecretKey) >>
              \o (IF creds.SessionToken # <<>>
                  THEN << ExportLine("AWS_SESSION_TOKEN", creds.SessionToken) >>
                  ELSE <<>>)
              \o << ExportLine("AWS_CREDENTIAL_EXPIRATION", creds.ExpiresAt) >>
              \o [i \in 1..Len(order) |-> ExportLine(order[i], mapping[order[i]])]
              \o << <<"Credentials minted successfully (expires: %s)", creds.ExpiresAt>>,
                    <<"To use: eval \"$(voidkey mint)\"">> >>,
      diag |-> (IF DOMAIN mapping # {}
                THEN << <<"Setting keyset environment variables:">> >>
                     \o [i \in 1..Len(order) |-> <<"  %s=%s", order[i], mapping[order[i]]>>]
                ELSE <<>>) ]

\* mint.go:182-203
outputAsEnvVars(creds, mapping, order) ==
    [ out |-> << ExportLine("AWS_ACCESS_KEY_ID", creds.AccessKey),
                 ExportLine("AWS_SECRET_ACCESS_KEY", creds.SecretKey) >>
              \o (IF creds.SessionToken # <<>>
                  THEN << ExportLine("AWS_SESSION_TOKEN", creds.SessionToken) >>
                  ELSE <<>>)
              \o << ExportLine("AWS_CREDENTIAL_EXPIRATION", creds.ExpiresAt) >>
              \o [i \in 1..Len(order) |-> ExportLine(order[i], mapping[order[i]])],
      diag |-> (IF DOMAIN mapping # {}
                THEN << <<"Setting keyset environment variables:">> >>
                     \o [i \in 1..Len(order) |-> <<"  %s=%s", order[i], mapping[order[i]]>>]
                ELSE <<>>)
               \o << <<"Credentials minted successfully (expires: %s)", creds.ExpiresAt>>,
                     <<"To use: eval \"$(voidkey mint)\"">> >> ]

\* mint.go:205-208
outputAsJSON(creds) ==
    [ out |-> << <<"%s", [indent |-> "  ", doc |-> MarshalCloudCredentials(creds)]>> >>,
      diag |-> <<>> ]

RECURSIVE Flatten(_)
Flatten(ss) == IF ss = <<>> THEN <<>> ELSE Head(ss) \o Flatten(Tail(ss))

\* A rendering whose summary counts the keys where it should count the
\* environment variables.
outputKeysAsEnvVarsCountingKeys(responses, keyOrder, varOrder) ==
    LET exports(k) ==
            [i \in 1..Len(varOrder[k]) |->
                ExportLine(varOrder[k][i], responses[k].Credentials[varOrder[k][i]])]
    IN  [ out |-> Flatten([i \in 1..Len(keyOrder) |-> exports(keyOrder[i])]),
          diag |-> [i \in 1..Len(keyOrder) |->
                      <<"Key: %s (expires: %s)", keyOrder[i],
                        responses[keyOrder[i]].ExpiresAt>>]
                   \o << <<"Successfully minted %d keys with %d environment variables",
                           Cardinality(DOMAIN responses), Len(keyOrder)>>,
                         <<"To use: eval \"$(voidkey mint --keys MINIO_CREDENTIALS)\"">> >> ]

\* mint.go:211-226
outputKeysAsEnvVars(responses, keyOrder, varOrder) ==
    LET exports(k) ==
            [i \in 1..Len(varOrder[k]) |->
                ExportLine(varOrder[k][i], responses[k].Credentials[varOrder[k][i]])]
        out == Flatten([i \in 1..Len(keyOrder) |-> exports(keyOrder[i])])
    IN  [ out |-> out,
          diag |-> [i \in 1..Len(keyOrder) |->
                      <<"Key: %s (expires: %s)", keyOrder[i],
                        responses[keyOrder[i]].ExpiresAt>>]
                   \o << <<"Successfully minted %d keys with %d environment variables",
                           Cardinality(DOMAIN responses), Len(out)>>,
                         <<"To use: eval \"$(voidkey mint --keys MINIO_CREDENTIALS)\"">> >> ]

MarshalKeyResponses(responses) ==
    [k \in DOMAIN responses |->
        ("credentials" :> responses[k].Credentials)
        @@ ("expiresAt" :> responses[k].ExpiresAt)]

\* mint.go:228-231
outputKeysAsJSON(responses) ==
    [ out |-> << <<"%s", [indent |-> "  ", doc |-> MarshalKeyResponses(responses)]>> >>,
      diag |-> <<>> ]

\* A rendering that knows the formats env and json and writes nothing for
\* any other.
RenderKnownFormatsOnly ==
    /\ pc = "Render"
    /\ \E order \in Perms(DOMAIN keysetVars) :
         LET o == IF flags.format = "json" THEN outputAsJSON(credentials[1])
                  ELSE IF flags.format = "env"
                  THEN outputAsEnvVars(credentials[1], keysetVars, order)
                  ELSE [out |-> <<>>, diag |-> <<>>]
         IN  /\ stdout' = stdout \o o.out
             /\ stderr' = stderr \o o.diag
    /\ pc' = "Done"
    /\ UNCHANGED << previous, command, args, env, configFile, loads, config, serverFlag, serverURL, client, flags, token, calls, requests, returns,
                    credentials, keyResponses, keysetVars, err, exitCode,
                    providers >>

\* mint.go:168-176
Render ==
    /\ pc = "Render"
    /\ \E order \in Perms(DOMAIN keysetVars) :
         LET o == IF flags.format = "json" THEN outputAsJSON(credentials[1])
                  ELSE outputAsEnvVars(credentials[1], keysetVars, order)
         IN  /\ stdout' = stdout \o o.out
             /\ stderr' = stderr \o o.diag
    /\ pc' = "Done"
    /\ UNCHANGED << previous, command, args, env, configFile, loads, config, serverFlag, serverURL, client, flags, token, calls, requests, returns,
                    credentials, keyResponses, keysetVars, err, exitCode,
                    providers >>

VarOrders(responses) ==
    { f \in [DOMAIN responses ->
                UNION { Perms(DOMAIN responses[k].Credentials) : k \in DOMAIN responses }] :
        \A k \in DOMAIN responses : f[k] \in Perms(DOMAIN responses[k].Credentials) }

\* mint.go:136-144
RenderKeys ==
    /\ pc = "RenderKeys"
    /\ \E keyOrder \in Perms(DOMAIN keyResponses), varOrder \in VarOrders(keyResponses) :
         LET o == IF flags.format = "json" THEN outputKeysAsJSON(keyResponses)
                  ELSE outputKeysAsEnvVars(keyResponses, keyOrder, varOrder)
         IN  /\ stdout' = stdout \o o.out
             /\ stderr' = stderr \o o.diag
    /\ pc' = "Done"
    /\ UNCHANGED << previous, command, args, env, configFile, loads, config, serverFlag, serverURL, client, flags, token, calls, requests, returns,
                    credentials, keyResponses, keysetVars, err, exitCode,
                    providers >>

(***************************************************************************)
(* The list-idps command, list.go:16-47.                                   *)
(***************************************************************************)
\* list.go:18: the call and the GET it issues
CallListIdpProviders ==
    /\ pc = "ListIdpProviders"
    /\ calls' = Append(calls, [op |-> "ListIdpProviders", args |-> <<>>])
    /\ requests' = Append(requests, ListIdpProvidersRequest(client.serverURL))
    /\ pc' = "AwaitListIdpProviders"
    /\ UNCHANGED << previous, command, args, env, configFile, loads, config, serverFlag, serverURL, client, flags, token, stderr, stdout,
                    returns, credentials, providers, keyResponses, keysetVars, err,
                    exitCode >>

\* list.go:19-21
ListFailed(e) == <<"failed to list IdP providers: %w", e>>

\* list.go:18-21: ListIdpProviders returns
ReturnListIdpProviders ==
    /\ pc = "AwaitListIdpProviders"
    /\ \E o \in Outcomes(ProvidersBodies) :
         LET r == WithCause(ListIdpProviders(o, client.serverURL), requests[Len(requests)])
         IN  /\ returns' = Append(returns, [op |-> "ListIdpProviders", outcome |-> o,
                                            result |-> r.result, err |-> r.err,
                                            closed |-> DeferredClose(o)])
             /\ IF r.err # NoError
                THEN /\ err' = ListFailed(r.err)
                     /\ pc' = "Error"
                     /\ UNCHANGED providers
                ELSE /\ providers' = r.result[1]
                     /\ pc' = "RenderProviders"
                     /\ UNCHANGED err
    /\ UNCHANGED << previous, command, args, env, configFile, loads, config, serverFlag, serverURL, client, flags, token, stderr, stdout,
                    calls, requests, credentials, keyResponses, keysetVars, exitCode >>

\* A table that is printed with its header for an empty list too.
ProvidersTableAlways(ps) ==
    << <<"NAME\tDEFAULT">>, <<"----\t-------">> >>
    \o [i \in 1..Len(ps) |->
          <<"%s\t%s", ps[i].Name, IF ps[i].IsDefault THEN "CHECK MARK" ELSE "">>]

\* list.go:23-39: the lines written to stdout
ProvidersTable(ps) ==
    IF Len(ps) = 0 THEN << <<"No Identity Providers configured">> >>
    ELSE << <<"NAME\tDEFAULT">>, <<"----\t-------">> >>
         \o [i \in 1..Len(ps) |->
               <<"%s\t%s", ps[i].Name, IF ps[i].IsDefault THEN "CHECK MARK" ELSE "">>]

\* list.go:23-46
RenderProviders ==
    /\ pc = "RenderProviders"
    /\ stdout' = stdout \o ProvidersTable(providers)
    /\ pc' = "Done"
    /\ UNCHANGED << previous, command, args, env, configFile, loads, config, serverFlag, serverURL, client, flags, token, stderr, calls,
                    requests, returns, credentials, providers, keyResponses,
                    keysetVars, err, exitCode >>

(***************************************************************************)
(* The config subcommands, part_001:80-195.  Each handler loads the        *)
(* configuration itself.                                                   *)
(***************************************************************************)
UnknownKey(key) ==
    <<"unknown configuration key: %s\nValid keys: server, idp, token-env", key>>
KnownKey(key) == key \in {"server", "idp", "token-env"}

\* A set that starts from the default configuration instead of the loaded one.
SetKeyOnDefaults(c, key, value) ==
    IF key = "server" THEN [DefaultConfig EXCEPT !.Server = value]
    ELSE IF key = "idp" THEN [DefaultConfig EXCEPT !.IdpName = value]
    ELSE [DefaultConfig EXCEPT !.TokenEnv = value]

\* part_001:105-114
SetKey(c, key, value) ==
    IF key = "server" THEN [c EXCEPT !.Server = value]
    ELSE IF key = "idp" THEN [c EXCEPT !.IdpName = value]
    ELSE [c EXCEPT !.TokenEnv = value]

\* part_001:146-155
GetKey(c, key) ==
    IF key = "server" THEN c.Server
    ELSE IF key = "idp" THEN c.IdpName
    ELSE c.TokenEnv

\* config.go:71-93: the ways SaveConfig ends
SaveOutcomes == {"saved", "mkdir failed", "write failed"}
SaveError(w) ==
    IF w = "mkdir failed" THEN <<"failed to create config directory: %w">>
    ELSE IF w = "write failed" THEN <<"failed to write config file: %w">>
    ELSE NoError

\* config.go:102-119
GetTokenWithSource(c, e) ==
    IF c.TokenEnv # "" /\ Getenv(e, c.TokenEnv) # ""
    THEN <<Getenv(e, c.TokenEnv), c.TokenEnv>>
    ELSE IF Getenv(e, "OIDC_TOKEN") # "" THEN <<Getenv(e, "OIDC_TOKEN"), "OIDC_TOKEN">>
    ELSE IF Getenv(e, "GITHUB_TOKEN") # ""
    THEN <<Getenv(e, "GITHUB_TOKEN"), "GITHUB_TOKEN">>
    ELSE <<"", "">>

\* config.go:96-99
GetToken(c, e) == GetTokenWithSource(c, e)[1]

\* A set handler that changes the configuration loaded at start-up.
ConfigSetFromStartup ==
    /\ pc = "config set"
    /\ IF ~KnownKey(args[1])
       THEN /\ err' = UnknownKey(args[1])
            /\ pc' = "Error"
            /\ UNCHANGED << configFile, stdout >>
       ELSE \E w \in SaveOutcomes :
              IF w # "saved"
              THEN /\ err' = <<"failed to save configuration: %w", SaveError(w)>>
                   /\ pc' = "Error"
                   /\ UNCHANGED << configFile, stdout >>
              ELSE /\ configFile' = YAMLFile(MarshalConfig(
                                                SetKey(config, args[1], args[2])))
                   /\ stdout' = Append(stdout, <<"Set %s = %s", args[1], args[2]>>)
                   /\ pc' = "Done"
                   /\ UNCHANGED err
    /\ UNCHANGED << previous, command, args, env, loads, config, serverFlag, serverURL, client,
                    flags, token, stderr, calls, requests, returns, credentials,
                    providers, keyResponses, keysetVars, exitCode >>

\* part_001:96-123
ConfigSet ==
    /\ pc = "config set"
    /\ loads' = loads + 1
    /\ LET r == LoadConfig(configFile)
       IN  IF r.err # NoError
           THEN /\ err' = <<"failed to load configuration: %w", r.err>>
                /\ pc' = "Error"
                /\ UNCHANGED << configFile, stdout >>
           ELSE IF ~KnownKey(args[1])
           THEN /\ err' = UnknownKey(args[1])
                /\ pc' = "Error"
                /\ UNCHANGED << configFile, stdout >>
           ELSE \E w \in SaveOutcomes :
                  IF w # "saved"
                  THEN /\ err' = <<"failed to save configuration: %w", SaveError(w)>>
                       /\ pc' = "Error"
                       /\ UNCHANGED << configFile, stdout >>
                  ELSE /\ configFile' = YAMLFile(MarshalConfig(
                                                    SetKey(r.config[1], args[1], args[2])))
                       /\ stdout' = Append(stdout, <<"Set %s = %s", args[1], args[2]>>)
                       /\ pc' = "Done"
                       /\ UNCHANGED err
    /\ UNCHANGED << previous, command, args, env, config, serverFlag, serverURL, client,
                    flags, token, stderr, calls, requests, returns, credentials,
                    providers, keyResponses, keysetVars, exitCode >>

\* part_001:139-159
ConfigGet ==
    /\ pc = "config get"
    /\ loads' = loads + 1
    /\ LET r == LoadConfig(configFile)
       IN  IF r.err # NoError
           THEN /\ err' = <<"failed to load configuration: %w", r.err>>
                /\ pc' = "Error"
                /\ UNCHANGED stdout
           ELSE IF ~KnownKey(args[1])
           THEN /\ err' = UnknownKey(args[1])
                /\ pc' = "Error"
                /\ UNCHANGED stdout
           ELSE /\ stdout' = Append(stdout, <<"%s", GetKey(r.config[1], args[1])>>)
                /\ pc' = "Done"
                /\ UNCHANGED err
    /\ UNCHANGED << previous, command, args, env, configFile, config, serverFlag, serverURL,
                    client, flags, token, stderr, calls, requests, returns,
                    credentials, providers, keyResponses, keysetVars, exitCode >>

\* part_001:172-193
ConfigList ==
    /\ pc = "config list"
    /\ loads' = loads + 1
    /\ LET r == LoadConfig(configFile)
       IN  IF r.err # NoError
           THEN /\ err' = <<"failed to load configuration: %w", r.err>>
                /\ pc' = "Error"
                /\ UNCHANGED stdout
           ELSE /\ stdout' = stdout \o
                     << <<"Configuration file: %s", "~/.voidkey/config.yaml">>,
                        <<"server:    %s", r.config[1].Server>>,
                        <<"idp:       %s", r.config[1].IdpName>>,
                        <<"token-env: %s", r.config[1].TokenEnv>>,
                        IF GetToken(r.config[1], env) # ""
                        THEN <<"Current token: Found (%s)", r.config[1].TokenEnv>>
                        ELSE <<"Current token: Not found">> >>
                /\ pc' = "Done"
                /\ UNCHANGED err
    /\ UNCHANGED << previous, command, args, env, configFile, config, serverFlag, serverURL,
                    client, flags, token, stderr, calls, requests, returns,
                    credentials, providers, keyResponses, keysetVars, exitCode >>

\* An exit that reports success whatever the command returned.
ExitStatusAlwaysZero(e) == 0

\* The shell runs `voidkey config get <key>` after a `voidkey config set`
\* has exited: a new process, initialised (root.go:35-49) from the file the
\* first one left, with nothing written yet.
RunConfigGetNext ==
    /\ pc = "Exited" /\ command = "config set" /\ previous = <<>>
    /\ previous' = << [command |-> command, args |-> args, exitCode |-> exitCode] >>
    /\ command' = "config get"
    /\ args' \in ConfigArgs("config get")
    /\ loads' = 1
    /\ config' = StartupConfig(configFile)
    /\ serverURL' = StartupConfig(configFile).Server
    /\ client' = NewVoidkeyClient(StartupConfig(configFile).Server)
    /\ pc' = "ParseFlags"
    /\ stdout' = <<>>
    /\ stderr' = <<>>
    /\ err' = NoError
    /\ exitCode' = -1
    /\ UNCHANGED << env, configFile, serverFlag, flags, token, calls, requests,
                    returns, credentials, providers, keyResponses, keysetVars >>

\* root.go:28-33 and main.go:14-17
ExitStatus(e) == IF e # NoError THEN 1 ELSE 0

Execute ==
    /\ pc \in {"Done", "Error"}
    /\ exitCode' = ExitStatus(err)
    /\ pc' = "Exited"
    /\ UNCHANGED << previous, command, args, env, configFile, loads, config, serverFlag, serverURL, client, flags, token, stderr, stdout, calls,
                    requests, returns, credentials, keyResponses, keysetVars, err,
                    providers >>

Next ==
    \/ ParseFlags
    \/ ResolveToken
    \/ ValidateToken
    \/ ResolveIdp
    \/ SelectMode
    \/ CallMintKeys
    \/ ReturnMintKeys
    \/ CallMintCredentials
    \/ ReturnMintCredentials
    \/ CallGetKeysetKeys
    \/ ReturnGetKeysetKeys
    \/ Render
    \/ RenderKeys
    \/ CallListIdpProviders
    \/ ReturnListIdpProviders
    \/ RenderProviders
    \/ ConfigSet
    \/ ConfigGet
    \/ ConfigList
    \/ Execute
    \/ RunConfigGetNext

Spec == Init /\ [][Next]_vars

(***************************************************************************)
(* outputAsJSON on its own, called as TestOutputAsJSON calls it: with any  *)
(* CloudCredentials and a command whose stdout is empty.                   *)
(***************************************************************************)
CloudCredentialsValues ==
    [ AccessKey : Strings, SecretKey : {<<"s">>, <<>>}, SessionToken : Strings,
      ExpiresAt : {<<"2", "0", "2", "5">>} ]

OutputInit ==
    /\ previous = <<>>
    /\ command = "outputAsJSON"
    /\ args = <<>>
    /\ env \in { e \in Environments : \A n \in EnvNames : ~e[n].set }
    /\ configFile = NoFile("missing")
    /\ loads = 1
    /\ config = DefaultConfig
    /\ serverFlag = <<>>
    /\ serverURL = config.Server
    /\ client = NewVoidkeyClient(serverURL)
    /\ flags = [DefaultFlags EXCEPT !.format = "json"]
    /\ pc = "outputAsJSON"
    /\ token = ""
    /\ stderr = <<>>
    /\ stdout = <<>>
    /\ calls = <<>>
    /\ requests = <<>>
    /\ returns = <<>>
    /\ credentials \in { <<c>> : c \in CloudCredentialsValues }
    /\ providers = <<>>
    /\ keyResponses = <<>>
    /\ keysetVars = <<>>
    /\ err = NoError
    /\ exitCode = -1

CallOutputAsJSON ==
    /\ pc = "outputAsJSON"
    /\ stdout' = stdout \o outputAsJSON(credentials[1]).out
    /\ stderr' = stderr \o outputAsJSON(credentials[1]).diag
    /\ pc' = "outputAsJSONReturned"
    /\ UNCHANGED << previous, command, args, env, configFile, loads, config, serverFlag, serverURL, client, flags, token, calls, requests,
                    returns, credentials, providers, keyResponses, keysetVars, err,
                    exitCode >>

OutputNext == CallOutputAsJSON

OutputSpec == OutputInit /\ [][OutputNext]_vars

(***************************************************************************)
(* The command is a sequential program: a step that can be taken is taken, *)
(* and the HTTP client returns from every Post and Get.                    *)
(***************************************************************************)
FairSpec == Spec /\ WF_vars(Next)

(***************************************************************************)
(* The mint command of the revision without --keyset, client.go:207-361.   *)
(* Its token resolution (267-297), its IdP diagnostic (300-304) and its    *)
(* call of MintKeys (322-325) are those of mint.go; it requires --keys or  *)
(* --all, where mint.go falls back to the legacy mode.                     *)
(***************************************************************************)
MustSpecifyKeys == <<"must specify either specific keys (--keys) or all keys (--all)">>

\* A selection that goes on to MintKeys without keys and without --all.
KeysOnlySelectModeUnchecked ==
    /\ pc = "SelectMode"
    /\ stderr' = stderr \o ModeDiagnostics([flags EXCEPT !.all = TRUE])
    /\ pc' = "MintKeys"
    /\ UNCHANGED << previous, command, args, env, configFile, loads, config, serverFlag, serverURL, client, flags, token, stdout, calls, requests,
                    returns, credentials, keyResponses, keysetVars, err, exitCode,
                    providers >>

\* client.go:306-320
KeysOnlySelectMode ==
    /\ pc = "SelectMode"
    /\ IF Len(flags.keys) = 0 /\ ~flags.all
       THEN /\ err' = MustSpecifyKeys
            /\ pc' = "Error"
            /\ UNCHANGED stderr
       ELSE /\ stderr' = stderr \o
                  << IF flags.all THEN <<"Minting all available keys">>
                     ELSE <<"Minting keys: %v", flags.keys>> >>
                  \o (IF flags.duration > 0
                      THEN << <<"Duration override: %d seconds", flags.duration>> >>
                      ELSE <<>>)
            /\ pc' = "MintKeys"
            /\ UNCHANGED err
    /\ UNCHANGED << previous, command, args, env, configFile, loads, config, serverFlag, serverURL, client, flags, token, stdout, calls, requests,
                    returns, credentials, keyResponses, keysetVars, exitCode,
                    providers >>

\* client.go:341-356
KeysOnlyOutputKeysAsEnvVars(responses, keyOrder, varOrder) ==
    LET o == outputKeysAsEnvVars(responses, keyOrder, varOrder)
    IN  [ o EXCEPT !.diag = SubSeq(@, 1, Len(@) - 1) \o
            << <<"To use: eval \"$(voidkey mint --all)\" or eval \"$(voidkey mint --keys KEY_NAME)\"">> >> ]

\* client.go:327-335
KeysOnlyRenderKeys ==
    /\ pc = "RenderKeys"
    /\ \E keyOrder \in Perms(DOMAIN keyResponses), varOrder \in VarOrders(keyResponses) :
         LET o == IF flags.format = "json" THEN outputKeysAsJSON(keyResponses)
                  ELSE KeysOnlyOutputKeysAsEnvVars(keyResponses, keyOrder, varOrder)
         IN  /\ stdout' = stdout \o o.out
             /\ stderr' = stderr \o o.diag
    /\ pc' = "Done"
    /\ UNCHANGED << previous, command, args, env, configFile, loads, config, serverFlag, serverURL, client, flags, token, calls, requests, returns,
                    credentials, keyResponses, keysetVars, err, exitCode,
                    providers >>

\* The flags of this revision: client.go:255-260 registers no --keyset.
KeysOnlyFlagSets == { f \in FlagSets : f.keyset = "" }

KeysOnlyInit ==
    /\ previous = <<>>
    /\ command = "mint (keys only)"
    /\ args = <<>>
    /\ env \in Environments
    /\ configFile \in BrokerConfigFiles
    /\ loads = 1
    /\ config = StartupConfig(configFile)
    /\ serverFlag \in ServerFlags
    /\ serverURL = config.Server
    /\ client = NewVoidkeyClient(serverURL)
    /\ flags \in KeysOnlyFlagSets
    /\ pc = "ParseFlags"
    /\ token = ""
    /\ stderr = <<>>
    /\ stdout = <<>>
    /\ calls = <<>>
    /\ requests = <<>>
    /\ returns = <<>>
    /\ credentials = Nil
    /\ providers = <<>>
    /\ keyResponses = <<>>
    /\ keysetVars = <<>>
    /\ err = NoError
    /\ exitCode = -1

KeysOnlyNext ==
    \/ ParseFlags
    \/ ResolveToken
    \/ ValidateToken
    \/ ResolveIdp
    \/ KeysOnlySelectMode
    \/ CallMintKeys
    \/ ReturnMintKeys
    \/ KeysOnlyRenderKeys
    \/ Execute

KeysOnlySpec == KeysOnlyInit /\ [][KeysOnlyNext]_vars

(***************************************************************************)
(* The keysets commands, keysets.go.  Their flags are --subject, --token,  *)
(* --output and, for show, --keyset; the token is the flag's value, the    *)
(* environment is not consulted.                                           *)
(***************************************************************************)
KeysetsCommands == {"keysets list", "keysets show"}
Subjects == {"", "alice"}
KeysetsFormats == {"table", "json", "env"}
KeysetsFlagSets(cmd) ==
    [ token : FlagTokens, subject : Subjects,
      keyset : IF cmd = "keysets show" THEN Keysets ELSE {""},
      format : KeysetsFormats ]
SubjectOrTokenRequired ==
    <<"either subject or token is required. Use --subject or --token flag">>
KeysetRequired ==
    <<"keyset is required. Use --keyset flag to specify the keyset name">>

\* A lookup choice that prefers the subject to the token.
KeysetsLookupSubjectFirst(cmd, f) ==
    IF cmd = "keysets show" /\ f.keyset = "" THEN [err |-> KeysetRequired]
    ELSE IF f.subject # ""
    THEN [err |-> NoError,
          op |-> IF cmd = "keysets list" THEN "GetAvailableKeysets" ELSE "GetKeysetKeys",
          args |-> IF cmd = "keysets list" THEN <<f.subject>> ELSE <<f.subject, f.keyset>>]
    ELSE IF f.token # ""
    THEN [err |-> NoError,
          op |-> IF cmd = "keysets list" THEN "GetAvailableKeysetsWithToken"
                 ELSE "GetKeysetKeysWithToken",
          args |-> IF cmd = "keysets list" THEN <<f.token>> ELSE <<f.token, f.keyset>>]
    ELSE [err |-> SubjectOrTokenRequired]

\* keysets.go:39-51 and 104-123: the transport call the command makes, or
\* the error it returns without a call
KeysetsLookup(cmd, f) ==
    IF cmd = "keysets show" /\ f.keyset = "" THEN [err |-> KeysetRequired]
    ELSE IF f.token # ""
    THEN [err |-> NoError,
          op |-> IF cmd = "keysets list" THEN "GetAvailableKeysetsWithToken"
                 ELSE "GetKeysetKeysWithToken",
          args |-> IF cmd = "keysets list" THEN <<f.token>> ELSE <<f.token, f.keyset>>]
    ELSE IF f.subject # ""
    THEN [err |-> NoError,
          op |-> IF cmd = "keysets list" THEN "GetAvailableKeysets" ELSE "GetKeysetKeys",
          args |-> IF cmd = "keysets list" THEN <<f.subject>> ELSE <<f.subject, f.keyset>>]
    ELSE [err |-> SubjectOrTokenRequired]

KeysetsRequest(server, op, a) ==
    IF op = "GetAvailableKeysetsWithToken"
    THEN GetAvailableKeysetsWithTokenRequest(server, a[1])
    ELSE IF op = "GetAvailableKeysets" THEN GetAvailableKeysetsRequest(server, a[1])
    ELSE IF op = "GetKeysetKeysWithToken"
    THEN GetKeysetKeysWithTokenRequest(server, a[1], a[2])
    ELSE GetKeysetKeysRequest(server, a[1], a[2])

KeysetsOperation(op, o, server) ==
    IF op = "GetAvailableKeysetsWithToken" THEN GetAvailableKeysetsWithToken(o, server)
    ELSE IF op = "GetAvailableKeysets" THEN GetAvailableKeysets(o, server)
    ELSE IF op = "GetKeysetKeysWithToken" THEN GetKeysetKeysWithToken(o, server)
    ELSE GetKeysetKeys(o, server)

\* keysets.go:36-51 and 104-123, up to the transport call
CallKeysets ==
    /\ pc \in KeysetsCommands
    /\ LET l == KeysetsLookup(command, flags)
       IN  IF l.err # NoError
           THEN /\ err' = l.err
                /\ pc' = "Error"
                /\ UNCHANGED << calls, requests >>
           ELSE /\ calls' = Append(calls, [op |-> l.op, args |-> l.args])
                /\ requests' = Append(requests,
                                      KeysetsRequest(client.serverURL, l.op, l.args))
                /\ pc' = "AwaitKeysets"
                /\ UNCHANGED err
    /\ UNCHANGED << previous, command, args, env, configFile, loads, config, serverFlag,
                    serverURL, client, flags, token, stderr, stdout, returns,
                    credentials, providers, keyResponses, keysetVars, exitCode >>

\* keysets.go:53-60 and 125-132
NotFoundLine(cmd, f) ==
    IF cmd = "keysets list"
    THEN IF f.token # "" THEN <<"No keysets found for the provided token">>
         ELSE <<"No keysets found for subject: %s", f.subject>>
    ELSE IF f.token # ""
         THEN <<"Keyset '%s' not found for the provided token", f.keyset>>
         ELSE <<"Keyset '%s' not found for subject: %s", f.keyset, f.subject>>

\* keysets.go:62-79
KeysetsListOutput(keysets, f, order, varOrder) ==
    IF f.format = "json" THEN << <<"%s", [indent |-> "  ", doc |-> keysets]>> >>
    ELSE << IF f.token # "" THEN <<"Available keysets for the provided token:">>
            ELSE <<"Available keysets for subject '%s':", f.subject>> >>
         \o Flatten([i \in 1..Len(order) |->
               << <<"%s:", order[i]>> >>
               \o [j \in 1..Len(varOrder[order[i]]) |->
                     <<"  %s=%s", varOrder[order[i]][j],
                       keysets[order[i]][varOrder[order[i]][j]]>>]
               \o << <<"">> >>])

\* keysets.go:134-151
KeysetShowOutput(keys, f, order) ==
    IF f.format = "json" THEN << <<"%s", [indent |-> "  ", doc |-> keys]>> >>
    ELSE IF f.format = "env"
    THEN [i \in 1..Len(order) |-> ExportLine(order[i], keys[order[i]])]
    ELSE << IF f.token # ""
            THEN <<"Keys in keyset '%s' for the provided token:", f.keyset>>
            ELSE <<"Keys in keyset '%s' for subject '%s':", f.keyset, f.subject>> >>
         \o [i \in 1..Len(order) |-> <<"%s=%s", order[i], keys[order[i]]>>]

KeysetVarOrders(keysets) ==
    { v \in [DOMAIN keysets ->
                UNION { Perms(DOMAIN keysets[k]) : k \in DOMAIN keysets }] :
        \A k \in DOMAIN keysets : v[k] \in Perms(DOMAIN keysets[k]) }

\* keysets.go:40-81 and 112-153: the transport call returns, and the
\* command prints what it received
ReturnKeysets ==
    /\ pc = "AwaitKeysets"
    /\ \E o \in Outcomes(IF command = "keysets list" THEN KeysetsBodies
                          ELSE KeysetBodies \cup {NullBody}) :
         LET op == calls[Len(calls)].op
             r == WithCause(KeysetsOperation(op, o, client.serverURL),
                            requests[Len(requests)])
         IN  /\ returns' = Append(returns, [op |-> op, outcome |-> o,
                                            result |-> r.result, err |-> r.err,
                                            closed |-> DeferredClose(o)])
             /\ IF r.err # NoError
                THEN /\ err' = r.err
                     /\ pc' = "Error"
                     /\ UNCHANGED stdout
                ELSE /\ UNCHANGED err
                     /\ pc' = "Done"
                     /\ IF r.result = Nil
                        THEN stdout' = Append(stdout, NotFoundLine(command, flags))
                        ELSE IF command = "keysets list"
                        THEN \E order \in Perms(DOMAIN r.result[1]),
                                varOrder \in KeysetVarOrders(r.result[1]) :
                               stdout' = stdout \o KeysetsListOutput(r.result[1], flags,
                                                                     order, varOrder)
                        ELSE \E order \in Perms(DOMAIN r.result[1]) :
                               stdout' = stdout \o KeysetShowOutput(r.result[1], flags,
                                                                    order)
    /\ UNCHANGED << previous, command, args, env, configFile, loads, config, serverFlag,
                    serverURL, client, flags, token, stderr, calls, requests,
                    credentials, providers, keyResponses, keysetVars, exitCode >>

KeysetsInit ==
    /\ previous = <<>>
    /\ command \in KeysetsCommands
    /\ args = <<>>
    /\ env \in Environments
    /\ configFile \in BrokerConfigFiles
    /\ loads = 1
    /\ config = StartupConfig(configFile)
    /\ serverFlag \in ServerFlags
    /\ serverURL = config.Server
    /\ client = NewVoidkeyClient(serverURL)
    /\ flags \in KeysetsFlagSets(command)
    /\ pc = "ParseFlags"
    /\ token = ""
    /\ stderr = <<>>
    /\ stdout = <<>>
    /\ calls = <<>>
    /\ requests = <<>>
    /\ returns = <<>>
    /\ credentials = Nil
    /\ providers = <<>>
    /\ keyResponses = <<>>
    /\ keysetVars = <<>>
    /\ err = NoError
    /\ exitCode = -1

KeysetsNext ==
    \/ ParseFlags
    \/ CallKeysets
    \/ ReturnKeysets
    \/ Execute

KeysetsSpec == KeysetsInit /\ [][KeysetsNext]_vars

(***************************************************************************)
(* Properties of the mint command's token resolution.                      *)
(***************************************************************************)
Supplied(name) == env[name].set /\ env[name].val # ""
Resolved == pc \notin {"ParseFlags", "ResolveToken"}
Has(seq, line) == \E i \in 1..Len(seq) : seq[i] = line
MintCalls == { i \in 1..Len(calls) : calls[i].op \in {"MintKeys", "MintCredentials"} }
Posts == { i \in 1..Len(requests) : requests[i].method = "POST" }
HelloWorldDiagnostic == <<"Using hello-world IdP with default token">>
MissingTokenError == <<"OIDC token is required">>

\* The first non-empty of the flag, OIDC_TOKEN and GITHUB_TOKEN; "" when none.
FirstSupplied ==
    IF flags.token # "" THEN flags.token
    ELSE IF Supplied("OIDC_TOKEN") THEN env["OIDC_TOKEN"].val
    ELSE IF Supplied("GITHUB_TOKEN") THEN env["GITHUB_TOKEN"].val
    ELSE ""

\* C1: whenever the flag, OIDC_TOKEN or GITHUB_TOKEN supplies a token, the
\* token the mint command resolves, hands to the transport and posts to the
\* broker is the first non-empty one in that order; a variable set to ""
\* counts as not supplied, exactly like an unset one.
C1_TokenPrecedence ==
    (command = "mint" /\ FirstSupplied # "") =>
        /\ Resolved => token = FirstSupplied
        /\ \A i \in MintCalls : calls[i].args[1] = FirstSupplied
        /\ \A i \in Posts : requests[i].body["oidcToken"] = FirstSupplied

\* C1 witness: OIDC_TOKEN is set to "", GITHUB_TOKEN holds a token, no flag,
\* and the POST carrying GITHUB_TOKEN's value has been issued.
C1_Witness ==
    /\ command = "mint" /\ flags.token = ""
    /\ env["OIDC_TOKEN"] = [set |-> TRUE, val |-> ""]
    /\ Supplied("GITHUB_TOKEN")
    /\ Posts # {}
    /\ \A i \in Posts : requests[i].body["oidcToken"] = env["GITHUB_TOKEN"].val

C3_WitnessPlaceholder ==
    /\ command = "mint" /\ FirstSupplied = "" /\ flags.idpName = "hello-world"
    /\ \E i \in MintCalls : calls[i].args[1] = HelloWorldToken

\* C4: with no --token flag and the variable named by the configuration's
\* tokenEnv set to a non-empty value, the token handed to the transport is
\* the value of that variable.
C4_ConfiguredTokenEnvIsRead ==
    (command = "mint" /\ flags.token = "" /\ Supplied(config.TokenEnv)) =>
        /\ Resolved => token = env[config.TokenEnv].val
        /\ \A i \in MintCalls : calls[i].args[1] = env[config.TokenEnv].val

(***************************************************************************)
(* Properties of the mint command's transport calls.                       *)
(***************************************************************************)
Returned == 1..Len(returns)
MintOps == {"MintKeys", "MintCredentials"}
Ended == pc \in {"Error", "Exited"}
KeysOrAll == Len(flags.keys) > 0 \/ flags.all
PassedValidation ==
    pc \notin {"ParseFlags", "ResolveToken", "ValidateToken"} /\ err # MissingTokenError
BeforeCall == pc \in {"ResolveIdp", "SelectMode", "MintKeys", "MintCredentials"}
LookupWarning(e) ==
    <<"Warning: Could not retrieve keyset environment variables: %v", e>>

C6_ModeSelection ==
    command = "mint" =>
        /\ Cardinality(MintCalls) <= 1
        /\ (PassedValidation /\ ~BeforeCall) => Cardinality(MintCalls) = 1
        /\ ~PassedValidation => MintCalls = {}
        /\ \A i \in MintCalls :
              /\ calls[i].op = "MintKeys" <=> KeysOrAll
              /\ calls[i].op = "MintKeys" =>
                    calls[i].args = <<token, flags.idpName, flags.keys,
                                      flags.duration, flags.all>>
              /\ calls[i].op = "MintCredentials" =>
                    calls[i].args = <<token, flags.idpName, flags.keyset>>

\* C6 witness: keys given without --all, a keyset given too; MintKeys was
\* called and the invocation has exited.
C6_Witness ==
    /\ command = "mint" /\ pc = "Exited"
    /\ Len(flags.keys) > 0 /\ ~flags.all /\ flags.keyset # ""
    /\ Len(calls) = 1 /\ calls[1].op = "MintKeys"

\* C7: the two modes are never combined: with keys or all, no request
\* carries the keyset and no keyset-lookup GET is issued, even when --keyset
\* was given; in legacy mode no POST carries keys, duration or all.
C7_ModesNotCombined ==
    command = "mint" =>
        /\ KeysOrAll =>
              /\ \A i \in 1..Len(requests) :
                    /\ requests[i].method = "POST"
                    /\ "keyset" \notin DOMAIN requests[i].body
              /\ \A i \in 1..Len(calls) : calls[i].op = "MintKeys"
        /\ ~KeysOrAll =>
              /\ \A i \in Posts :
                    DOMAIN requests[i].body \cap {"keys", "duration", "all"} = {}
              /\ \A i \in 1..Len(calls) : calls[i].op # "MintKeys"

\* C7 witness: --all together with --keyset; the POST went out without the
\* keyset and the invocation exited with a single request made.
C7_Witness ==
    /\ command = "mint" /\ pc = "Exited" /\ err = NoError
    /\ flags.all /\ flags.keyset # ""
    /\ Len(requests) = 1 /\ "keyset" \notin DOMAIN requests[1].body

\* C8: a mint invocation issues at most two HTTP requests, one at a time:
\* one POST, then at most one GET, the GET only after the POST returned
\* without error and only in legacy mode with a non-empty keyset; nothing is
\* issued after a request that failed; an invocation that passed validation
\* and ended has issued exactly one POST.
C8_AtMostTwoSequentialRequests ==
    command = "mint" =>
        /\ Len(requests) <= 2
        /\ Len(returns) <= Len(requests) /\ Len(requests) <= Len(returns) + 1
        /\ Len(requests) >= 1 => requests[1].method = "POST"
        /\ Cardinality(Posts) <= 1
        /\ Len(requests) = 2 =>
              /\ requests[2].method = "GET"
              /\ returns[1].err = NoError
              /\ ~KeysOrAll /\ flags.keyset # ""
        /\ \A i \in Returned : returns[i].err # NoError => Len(requests) = i
        /\ (PassedValidation /\ Ended) => Cardinality(Posts) = 1

\* C8 witness: the POST and then the lookup GET were issued; the invocation
\* has exited.
C8_Witness ==
    /\ command = "mint" /\ pc = "Exited"
    /\ Len(requests) = 2 /\ requests[1].method = "POST"
    /\ requests[2].method = "GET"

(***************************************************************************)
(* Properties of the transport operations.                                 *)
(***************************************************************************)
ClientOps == {"MintCredentials", "ListIdpProviders"}
Kind(e) == IF Len(e) = 0 THEN "" ELSE e[1]
ParseMessage(op) ==
    IF op = "MintCredentials" THEN "failed to parse credentials response: %w"
    ELSE "failed to parse providers response: %w"
Parsable(op, body) ==
    IF op = "MintCredentials" THEN body.kind = "object" ELSE body.kind = "array"

C10_ClassificationOrder ==
    \A i \in Returned :
        LET o == returns[i].outcome
            r == returns[i]
        IN  r.op \in ClientOps =>
              /\ (r.result = Nil) # (r.err = NoError)
              /\ Kind(r.err) =
                    IF o.connErr THEN "failed to connect to broker server at %s: %w"
                    ELSE IF o.readErr THEN "failed to read response: %w"
                    ELSE IF o.status # 200 THEN "server returned error %d: %s"
                    ELSE IF ~Parsable(r.op, o.body) THEN ParseMessage(r.op)
                    ELSE ""

\* C10 witness: MintCredentials got a 500 whose body is a well-formed
\* credentials document, and returned the server error.
C10_Witness ==
    \E i \in Returned :
        /\ returns[i].op = "MintCredentials"
        /\ returns[i].outcome.status = 500 /\ ~returns[i].outcome.readErr
        /\ returns[i].outcome.body.kind = "object"
        /\ Kind(returns[i].err) = "server returned error %d: %s"

\* C10 witness of a body-read failure on a 200 response.
C10_WitnessReadFailure ==
    \E i \in Returned :
        /\ returns[i].op = "ListIdpProviders"
        /\ returns[i].outcome.status = 200 /\ returns[i].outcome.readErr
        /\ Kind(returns[i].err) = "failed to read response: %w"

\* C11: whenever the HTTP client hands a response to MintCredentials or
\* ListIdpProviders, the body of that response has been closed exactly once
\* when the operation returns, whether it returns a result, a body-read
\* failure, a server error or a parse error; when the HTTP client returned an
\* error there is no response and nothing is closed.
C11_BodyClosedOnce ==
    \A i \in Returned :
        returns[i].op \in ClientOps =>
            /\ ~returns[i].outcome.connErr => returns[i].closed = 1
            /\ returns[i].outcome.connErr => returns[i].closed = 0

\* C11 witness: ListIdpProviders returned a body-read failure with the body
\* closed once, and the list-idps invocation has exited.
C11_Witness ==
    /\ pc = "Exited" /\ Len(returns) = 1
    /\ returns[1].op = "ListIdpProviders"
    /\ returns[1].outcome.readErr /\ returns[1].err # NoError
    /\ returns[1].closed = 1

\* C11 witness of a server error returned by MintCredentials, body closed.
C11_WitnessServerError ==
    \E i \in Returned :
        /\ returns[i].op = "MintCredentials"
        /\ ~returns[i].outcome.connErr /\ ~returns[i].outcome.readErr
        /\ returns[i].outcome.status = 500 /\ returns[i].closed = 1

(***************************************************************************)
(* Properties of the rendering.                                            *)
(***************************************************************************)
Finished == pc \in {"Done", "Exited"} /\ err = NoError
LegacyEnvDone ==
    command = "mint" /\ ~KeysOrAll /\ flags.format # "json" /\ Finished
Export(name, value) == <<"export %s=%s", name, value>>
AwsLineCount(c) == IF c.SessionToken # <<>> THEN 4 ELSE 3
AwsLinesInOrder(c) ==
    /\ Len(stdout) >= AwsLineCount(c)
    /\ stdout[1] = Export("AWS_ACCESS_KEY_ID", c.AccessKey)
    /\ stdout[2] = Export("AWS_SECRET_ACCESS_KEY", c.SecretKey)
    /\ c.SessionToken # <<>> =>
          /\ stdout[3] = Export("AWS_SESSION_TOKEN", c.SessionToken)
          /\ stdout[4] = Export("AWS_CREDENTIAL_EXPIRATION", c.ExpiresAt)
    /\ c.SessionToken = <<>> =>
          /\ stdout[3] = Export("AWS_CREDENTIAL_EXPIRATION", c.ExpiresAt)
          /\ \A i \in 1..Len(stdout) : stdout[i][2] # "AWS_SESSION_TOKEN"

\* C12 as stated: legacy env rendering leaves exactly 4 export lines on
\* stdout when sessionToken is non-empty and exactly 3 when it is empty, in
\* the order access key, secret key, [session token], expiration.
C12_ExactlyFourOrThreeExports ==
    LegacyEnvDone =>
        /\ Len(stdout) = AwsLineCount(credentials[1])
        /\ AwsLinesInOrder(credentials[1])

\* C12 amended: legacy env rendering first writes the 4 (sessionToken
\* non-empty) or 3 (sessionToken empty, no AWS_SESSION_TOKEN line) AWS export
\* lines in the order access key, secret key, [session token], expiration,
\* and then one further export line for every variable the keyset lookup
\* returned; without such variables the AWS lines are all of stdout.
C12_AwsExportsThenKeysetExports ==
    LegacyEnvDone =>
        LET c == credentials[1]
            rest == { i \in 1..Len(stdout) : i > AwsLineCount(c) }
        IN  /\ AwsLinesInOrder(c)
            /\ Len(stdout) = AwsLineCount(c) + Cardinality(DOMAIN keysetVars)
            /\ \A i \in rest :
                  \E n \in DOMAIN keysetVars : stdout[i] = Export(n, keysetVars[n])
            /\ \A n \in DOMAIN keysetVars :
                  \E i \in rest : stdout[i] = Export(n, keysetVars[n])

\* C12 witness: credentials without a session token rendered together with
\* a keyset variable: three AWS lines and one more export line.
C12_Witness ==
    /\ LegacyEnvDone /\ credentials[1].SessionToken = <<>>
    /\ DOMAIN keysetVars # {} /\ Len(stdout) = 4

\* C12 witness of the four AWS lines alone.
C12_WitnessFour ==
    /\ LegacyEnvDone /\ credentials[1].SessionToken # <<>>
    /\ DOMAIN keysetVars = {} /\ Len(stdout) = 4

KeysEnvDone == command = "mint" /\ KeysOrAll /\ flags.format # "json" /\ Finished
RECURSIVE TotalEntries(_, _)
TotalEntries(responses, names) ==
    IF names = {} THEN 0
    ELSE LET k == CHOOSE n \in names : TRUE
         IN  Cardinality(DOMAIN responses[k].Credentials)
             + TotalEntries(responses, names \ {k})
Count(seq, P(_)) == Cardinality({ i \in 1..Len(seq) : P(seq[i]) })
IsExport(line) == line[1] = "export %s=%s"
IsKeyDiagnostic(line) == line[1] = "Key: %s (expires: %s)"
IsKeySummary(line) ==
    line[1] = "Successfully minted %d keys with %d environment variables"

\* C13: key-based env rendering of a result with N key names and M
\* credential entries in total leaves exactly M lines on stdout, all of them
\* export lines, exactly N 'Key: <name> (expires: ...)' diagnostics on
\* stderr, one for each key name with its expiry, and exactly one summary
\* diagnostic, which states N keys and M environment variables.
C13_KeyRenderingCounts ==
    KeysEnvDone =>
        LET N == Cardinality(DOMAIN keyResponses)
            M == TotalEntries(keyResponses, DOMAIN keyResponses)
        IN  /\ Len(stdout) = M
            /\ Count(stdout, IsExport) = M
            /\ Count(stderr, IsKeyDiagnostic) = N
            /\ \A k \in DOMAIN keyResponses :
                  Has(stderr, <<"Key: %s (expires: %s)", k, keyResponses[k].ExpiresAt>>)
            /\ Count(stderr, IsKeySummary) = 1
            /\ Has(stderr,
                   <<"Successfully minted %d keys with %d environment variables", N, M>>)

\* C13 witness: two keys with three credential entries in total were
\* rendered as env lines.
C13_Witness ==
    /\ KeysEnvDone /\ pc = "Exited"
    /\ Cardinality(DOMAIN keyResponses) = 2 /\ Len(stdout) = 3

\* C13 witness of an empty result: no export line, a summary of 0 and 0.
C13_WitnessEmpty ==
    /\ KeysEnvDone /\ DOMAIN keyResponses = {} /\ stdout = <<>>
    /\ Has(stderr,
           <<"Successfully minted %d keys with %d environment variables", 0, 0>>)

\* The CloudCredentials json.Unmarshal reads out of the text on stdout.
JSONWritten ==
    \/ pc = "outputAsJSONReturned"
    \/ command = "mint" /\ ~KeysOrAll /\ flags.format = "json" /\ Finished
ParsedStdout ==
    Unmarshal(ObjectBody(stdout[1][2].doc), "CloudCredentials")

\* C14: for every CloudCredentials x, the text outputAsJSON writes is one
\* JSON object that json.Unmarshal reads back as a CloudCredentials equal to
\* x in accessKey, secretKey, sessionToken and expiresAt; the sessionToken
\* member is left out of the text exactly when x's sessionToken is empty.
C14_JSONRoundTrip ==
    JSONWritten =>
        /\ Len(stdout) = 1
        /\ CanUnmarshal(ObjectBody(stdout[1][2].doc), "CloudCredentials")
        /\ ParsedStdout.AccessKey = credentials[1].AccessKey
        /\ ParsedStdout.SecretKey = credentials[1].SecretKey
        /\ ParsedStdout.SessionToken = credentials[1].SessionToken
        /\ ParsedStdout.ExpiresAt = credentials[1].ExpiresAt
        /\ "sessionToken" \in DOMAIN stdout[1][2].doc
              <=> credentials[1].SessionToken # <<>>

\* C14 witness: credentials with an empty sessionToken and an access key
\* made of a backslash and the letter n were written and read back.
C14_Witness ==
    /\ pc = "outputAsJSONReturned"
    /\ credentials[1].SessionToken = <<>>
    /\ credentials[1].AccessKey = <<"\\", "n">>
    /\ "sessionToken" \notin DOMAIN stdout[1][2].doc
    /\ ParsedStdout = credentials[1]

(***************************************************************************)
(* Properties of the mint command's diagnostics and stages.                *)
(***************************************************************************)
OidcDiagnostic == <<"Using OIDC_TOKEN environment variable">>
GithubDiagnostic == <<"Using GITHUB_TOKEN environment variable">>
TokenSourceDiagnostics == {OidcDiagnostic, GithubDiagnostic, HelloWorldDiagnostic}
IsTokenSourceDiagnostic(line) == line \in TokenSourceDiagnostics
FromOidc == flags.token = "" /\ Supplied("OIDC_TOKEN")
FromGithub == flags.token = "" /\ ~Supplied("OIDC_TOKEN") /\ Supplied("GITHUB_TOKEN")
FromHelloWorld == FirstSupplied = "" /\ flags.idpName = "hello-world"

\* C15: a mint invocation writes at most one token-source diagnostic, and
\* once the token is resolved the diagnostic on stderr is the OIDC_TOKEN one
\* exactly when OIDC_TOKEN supplied the token, the GITHUB_TOKEN one exactly
\* when GITHUB_TOKEN did, the hello-world one exactly when the default was
\* used, and there is none when the --token flag supplied it.
C15_TokenSourceDiagnostic ==
    command = "mint" =>
        /\ Count(stderr, IsTokenSourceDiagnostic) <= 1
        /\ Resolved =>
              /\ Has(stderr, OidcDiagnostic) <=> FromOidc
              /\ Has(stderr, GithubDiagnostic) <=> FromGithub
              /\ Has(stderr, HelloWorldDiagnostic) <=> FromHelloWorld
              /\ FromOidc => token = env["OIDC_TOKEN"].val
              /\ FromGithub => token = env["GITHUB_TOKEN"].val
              /\ FromHelloWorld => token = "cli-hello-world-token"
              /\ flags.token # "" =>
                    token = flags.token /\ Count(stderr, IsTokenSourceDiagnostic) = 0

\* C15 witness: the flag supplied the token while both variables were set;
\* the invocation has exited without a token-source diagnostic.
C15_Witness ==
    /\ command = "mint" /\ pc = "Exited" /\ flags.token # ""
    /\ Supplied("OIDC_TOKEN") /\ Supplied("GITHUB_TOKEN")
    /\ Count(stderr, IsTokenSourceDiagnostic) = 0 /\ Len(stderr) > 0

\* C15 witness of the GITHUB_TOKEN diagnostic.
C15_WitnessGithub ==
    /\ command = "mint" /\ pc = "Exited" /\ FromGithub
    /\ Has(stderr, GithubDiagnostic) /\ ~Has(stderr, OidcDiagnostic)

Successors(stage) ==
    CASE stage = "ParseFlags" -> {"ResolveToken"}
      [] stage = "ResolveToken" -> {"ValidateToken"}
      [] stage = "ValidateToken" -> {"ResolveIdp", "Error"}
      [] stage = "ResolveIdp" -> {"SelectMode"}
      [] stage = "SelectMode" -> {"MintKeys", "MintCredentials"}
      [] stage = "MintKeys" -> {"AwaitMintKeys"}
      [] stage = "AwaitMintKeys" -> {"RenderKeys", "Error"}
      [] stage = "MintCredentials" -> {"AwaitMintCredentials"}
      [] stage = "AwaitMintCredentials" -> {"GetKeysetKeys", "Render", "Error"}
      [] stage = "GetKeysetKeys" -> {"AwaitGetKeysetKeys"}
      [] stage = "AwaitGetKeysetKeys" -> {"Render"}
      [] stage = "Render" -> {"Done"}
      [] stage = "RenderKeys" -> {"Done"}
      [] stage = "Done" -> {"Exited"}
      [] stage = "Error" -> {"Exited"}
      [] OTHER -> {}
IsIdpDiagnostic(line) ==
    line[1] \in {"Using IdP provider: %s", "Using server default IdP provider"}
IsModeDiagnostic(line) ==
    line[1] \in {"Minting all available keys", "Minting keys: %v",
                 "[LEGACY] Using keyset: %s",
                 "[LEGACY] Using all available keys from identity keysets"}
\* One step of the mint command: the next stage is a successor of the
\* current one, a diagnostic of a stage is written by that stage alone, and
\* stdout is written by the render stage alone.
StageStep ==
    /\ pc' \in Successors(pc)
    /\ Count(stderr', IsTokenSourceDiagnostic) # Count(stderr, IsTokenSourceDiagnostic)
          => pc = "ResolveToken"
    /\ Count(stderr', IsIdpDiagnostic) # Count(stderr, IsIdpDiagnostic)
          => pc = "ResolveIdp"
    /\ Count(stderr', IsModeDiagnostic) # Count(stderr, IsModeDiagnostic)
          => pc = "SelectMode"
    /\ requests' # requests =>
          pc \in {"MintKeys", "MintCredentials", "GetKeysetKeys"}
    /\ stdout' # stdout => pc \in {"Render", "RenderKeys"}
StageOrder ==
    /\ \A i, j \in 1..Len(stderr) :
          \/ IsTokenSourceDiagnostic(stderr[i]) /\ IsIdpDiagnostic(stderr[j]) => i < j
    /\ \A i, j \in 1..Len(stderr) :
          \/ IsIdpDiagnostic(stderr[i]) /\ IsModeDiagnostic(stderr[j]) => i < j
    /\ Count(stderr, IsIdpDiagnostic) <= 1
    /\ Count(stderr, IsModeDiagnostic) <= 1
    /\ requests # <<>> =>
          /\ Count(stderr, IsIdpDiagnostic) = 1
          /\ Count(stderr, IsModeDiagnostic) = 1
          /\ (FromOidc \/ FromGithub \/ FromHelloWorld)
                => Count(stderr, IsTokenSourceDiagnostic) = 1
    /\ stdout # <<>> =>
          /\ Len(returns) >= 1
          /\ returns[1].op \in MintOps /\ returns[1].err = NoError
          /\ Len(returns) = Len(requests)
    /\ pc \in {"Done", "Error"} => (pc = "Error" <=> err # NoError)

ListDone == command = "list-idps" /\ Finished
Received == returns[1].outcome.body.arr
IsCheckMarked(line) == Len(line) = 3 /\ line[3] = "CHECK MARK"
IsDefaultProvider(p) == p["isDefault"]

\* C17: list-idps that received an empty list prints the single line 'No
\* Identity Providers configured' and exits 0; for a non-empty list it
\* prints the header row, the separator row and then one row per provider in
\* the order received, and the rows carrying a check mark are exactly those
\* of the providers whose isDefault is true.
C17_ProvidersTable ==
    ListDone =>
        /\ pc = "Exited" => exitCode = 0
        /\ Len(Received) = 0 => stdout = << <<"No Identity Providers configured">> >>
        /\ Len(Received) > 0 =>
              /\ Len(stdout) = Len(Received) + 2
              /\ stdout[1] = <<"NAME\tDEFAULT">>
              /\ stdout[2] = <<"----\t-------">>
              /\ \A i \in 1..Len(Received) :
                    /\ stdout[i + 2][2] = Received[i]["name"]
                    /\ IsCheckMarked(stdout[i + 2]) <=> Received[i]["isDefault"]
              /\ Count(stdout, IsCheckMarked) = Count(Received, IsDefaultProvider)

\* C17 witness: two providers were received, the second one the default;
\* the table has four lines and one check mark, and the command exited 0.
C17_Witness ==
    /\ ListDone /\ pc = "Exited" /\ exitCode = 0
    /\ Len(Received) = 2 /\ Received[2]["isDefault"]
    /\ Len(stdout) = 4 /\ Count(stdout, IsCheckMarked) = 1

\* C17 witness of the empty list.
C17_WitnessEmpty ==
    /\ ListDone /\ pc = "Exited" /\ exitCode = 0 /\ Len(Received) = 0
    /\ stdout = << <<"No Identity Providers configured">> >>

(***************************************************************************)
(* Properties of the global flag and of the configuration.                 *)
(***************************************************************************)
EffectiveServer == IF serverFlag # <<>> THEN serverFlag[1] ELSE config.Server

\* C18: every HTTP request of an invocation is sent to the value of the
\* --server flag when the flag is given on the command line, and to the
\* configured or default server otherwise.
C18_RequestsGoToServerFlag ==
    \A i \in 1..Len(requests) : requests[i].url[1] = EffectiveServer

C19_WitnessMint ==
    /\ command = "mint" /\ pc = "Exited" /\ loads = 1 /\ Len(requests) = 2

FileHolds(name) ==
    configFile.state = "ok" /\ name \in DOMAIN configFile.doc
      /\ configFile.doc[name] # ""
ExpectedServer ==
    IF FileHolds("server") THEN configFile.doc["server"] ELSE "http://localhost:3000"
ExpectedIdpName == IF FileHolds("idp_name") THEN configFile.doc["idp_name"] ELSE ""
ExpectedTokenEnv ==
    IF FileHolds("token_env") THEN configFile.doc["token_env"] ELSE "OIDC_TOKEN"
LoadFails == configFile.state \in {"nohome", "unreadable", "invalid"}
FileAsAtStart == ~(command = "config set" /\ pc \in {"Done", "Exited"})

\* C20: a configuration obtained from LoadConfig has a non-empty server and
\* a non-empty tokenEnv: a missing file gives 'http://localhost:3000' and
\* 'OIDC_TOKEN', a file in which one of the two is missing or empty gives
\* the default for that field and the file's values for the others; when
\* the load fails the process starts with the default configuration, and a
\* handler that loads gets an error and no configuration.
C20_LoadConfigDefaults ==
    /\ config.Server # "" /\ config.TokenEnv # ""
    /\ FileAsAtStart =>
          config = [ Server |-> ExpectedServer, IdpName |-> ExpectedIdpName,
                     TokenEnv |-> ExpectedTokenEnv ]
    /\ (command = "config get" /\ pc \in {"Done", "Error", "Exited"}) =>
          IF LoadFails
          THEN Kind(err) = "failed to load configuration: %w" /\ stdout = <<>>
          ELSE /\ args[1] = "server" => stdout = << <<"%s", ExpectedServer>> >>
               /\ args[1] = "idp" => stdout = << <<"%s", ExpectedIdpName>> >>
               /\ args[1] = "token-env" => stdout = << <<"%s", ExpectedTokenEnv>> >>

\* C20 witness: the file has an empty server and a token_env; config get
\* server printed the default server.
C20_Witness ==
    /\ command = "config get" /\ args = <<"server">> /\ pc = "Exited"
    /\ configFile.state = "ok" /\ "server" \in DOMAIN configFile.doc
    /\ configFile.doc["server"] = ""
    /\ "token_env" \in DOMAIN configFile.doc /\ configFile.doc["token_env"] # ""
    /\ config.TokenEnv = configFile.doc["token_env"]
    /\ stdout = << <<"%s", "http://localhost:3000">> >>

\* C20 witness of a start with a file that is not YAML.
C20_WitnessLoadFailed ==
    /\ command = "config list" /\ pc = "Exited" /\ exitCode = 1
    /\ configFile.state = "invalid"
    /\ config = [Server |-> "http://localhost:3000", IdpName |-> "",
                 TokenEnv |-> "OIDC_TOKEN"]

(***************************************************************************)
(* Properties of the config subcommands.                                   *)
(***************************************************************************)
PersistedIn(file, name) ==
    IF file.state = "ok" /\ name \in DOMAIN file.doc THEN file.doc[name] ELSE ""
LoadError == <<"failed to load configuration: %w", LoadConfig(configFile).err>>
SetOrGetRuns == pc \in {"config set", "config get"}
OthersAsLoaded ==
    /\ args[1] # "server" => PersistedIn(configFile', "server") = ExpectedServer
    /\ args[1] # "idp" => PersistedIn(configFile', "idp_name") = ExpectedIdpName
    /\ args[1] # "token-env" => PersistedIn(configFile', "token_env") = ExpectedTokenEnv
NamedFieldSet ==
    /\ args[1] = "server" => PersistedIn(configFile', "server") = args[2]
    /\ args[1] = "idp" => PersistedIn(configFile', "idp_name") = args[2]
    /\ args[1] = "token-env" => PersistedIn(configFile', "token_env") = args[2]
FrameOfSet ==
    (KnownKey(args[1]) /\ pc = "config set" /\ pc' = "Done") =>
        NamedFieldSet /\ OthersAsLoaded

\* C21 as stated: config set and config get return the 'unknown
\* configuration key' error for every key other than server, idp and
\* token-env, and config set then saves nothing; for an accepted key config
\* set changes the named field only.
C21_UnknownKeyAlwaysReported ==
    [][ SetOrGetRuns =>
          /\ ~KnownKey(args[1]) =>
                /\ err' = UnknownKey(args[1]) /\ pc' = "Error"
                /\ configFile' = configFile /\ stdout' = stdout
          /\ FrameOfSet ]_vars

\* C21 amended: for a key other than server, idp and token-env both
\* handlers return an error, print nothing and leave the file as it is; the
\* error is the 'unknown configuration key' error when the configuration
\* file could be loaded and the load error otherwise, because the handlers
\* load before they look at the key.  For an accepted key a config set that
\* saves writes the given value into the named field and the loaded values
\* of the other two fields.
C21_OnlyKnownKeysAccepted ==
    [][ SetOrGetRuns =>
          /\ ~KnownKey(args[1]) =>
                /\ err' = IF LoadFails THEN LoadError ELSE UnknownKey(args[1])
                /\ pc' = "Error"
                /\ configFile' = configFile /\ stdout' = stdout
          /\ FrameOfSet ]_vars

\* C21 witness: config set idp on a file that holds a server and a
\* token_env has saved the three fields and exited 0.
C21_Witness ==
    /\ command = "config set" /\ args = <<"idp", "GITHUB_TOKEN">>
    /\ pc = "Exited" /\ exitCode = 0
    /\ configFile = YAMLFile(("server" :> ConfiguredServer)
                              @@ ("idp_name" :> "GITHUB_TOKEN")
                              @@ ("token_env" :> "GITHUB_TOKEN"))

\* C21 witness of a refused key: config set bogus ended with the unknown-key
\* error on a file that could be loaded.
C21_WitnessUnknownKey ==
    /\ command = "config set" /\ args[1] = "bogus" /\ pc = "Exited"
    /\ exitCode = 1 /\ err = UnknownKey("bogus") /\ configFile.state = "ok"

(***************************************************************************)
(* Properties of the duration override.                                    *)
(***************************************************************************)
ModeSelected ==
    command = "mint" /\ (Len(calls) > 0 \/ pc \in {"MintKeys", "MintCredentials"})
DurationLines ==
    { i \in 1..Len(stderr) : stderr[i][1] = "Duration override: %d seconds" }

\* C22: in key-based mode the duration override is reported on stderr, once
\* and with the value of --duration, if and only if that value is greater
\* than zero, and MintKeys is called with exactly the --duration value; in
\* legacy mode no duration diagnostic is written.
C22_DurationOverride ==
    /\ \A i \in DurationLines :
          /\ KeyBased(flags) /\ flags.duration > 0
          /\ stderr[i] = <<"Duration override: %d seconds", flags.duration>>
    /\ Cardinality(DurationLines) <= 1
    /\ (ModeSelected /\ KeyBased(flags) /\ flags.duration > 0) => DurationLines # {}
    /\ \A i \in 1..Len(calls) :
          calls[i].op = "MintKeys" => calls[i].args[4] = flags.duration

\* C22 witness: a key-based mint with --duration 1 reported the override,
\* called MintKeys with 1 and ended.
C22_Witness ==
    /\ command = "mint" /\ pc = "Exited" /\ KeyBased(flags) /\ flags.duration = 1
    /\ DurationLines # {}
    /\ Len(calls) = 1 /\ calls[1].op = "MintKeys" /\ calls[1].args[4] = 1

\* C22 witness of a legacy mint given a duration: nothing was reported.
C22_WitnessLegacy ==
    /\ command = "mint" /\ pc = "Exited" /\ ~KeyBased(flags) /\ flags.duration = 1
    /\ Len(calls) > 0 /\ DurationLines = {}

\* C22 witness of a key-based mint given a negative duration: nothing was
\* reported and MintKeys received the negative value.
C22_WitnessNegative ==
    /\ command = "mint" /\ pc = "Exited" /\ KeyBased(flags) /\ flags.duration < 0
    /\ DurationLines = {}
    /\ Len(calls) = 1 /\ calls[1].args[4] = flags.duration

(***************************************************************************)
(* Properties of the process exit.                                         *)
(***************************************************************************)
\* C23: the process exits with 0 exactly when the command it ran returned
\* no error and with 1 when the command returned an error, whichever error
\* it is (missing token, connection, server, parse, unknown configuration
\* key); a process that has not exited has no exit code.
C23_ExitCode ==
    /\ [](pc = "Done" => err = NoError)
    /\ [](pc = "Error" => err # NoError)
    /\ [](pc # "Exited" => exitCode = -1)
    /\ [](pc = "Exited" => /\ exitCode \in {0, 1}
                           /\ exitCode = 0 <=> err = NoError)
    /\ [][ pc' = "Exited" =>
             /\ pc = "Done" => exitCode' = 0
             /\ pc = "Error" => exitCode' = 1 ]_vars

\* C23 witness: a mint without a token exited with 1.
C23_Witness ==
    /\ command = "mint" /\ pc = "Exited" /\ exitCode = 1
    /\ err = <<"OIDC token is required">> /\ calls = <<>>

\* C23 witness of a success: list-idps printed the table and exited with 0.
C23_WitnessSuccess ==
    /\ command = "list-idps" /\ pc = "Exited" /\ exitCode = 0
    /\ err = NoError /\ Len(stdout) > 0

\* C23 witness of a server error: the mint exited with 1.
C23_WitnessServerError ==
    /\ command = "mint" /\ pc = "Exited" /\ exitCode = 1
    /\ Kind(err) = "server returned error %d: %s"

\* C23 witness of a refused key: config get exited with 1.
C23_WitnessUnknownKey ==
    /\ command = "config get" /\ pc = "Exited" /\ exitCode = 1
    /\ err = UnknownKey(args[1])

(***************************************************************************)
(* Properties of what the mint command prints.                             *)
(***************************************************************************)
\* The strings an error's text is made of.
ErrorStrings(e) ==
    IF Kind(e) = "failed to connect to broker server at %s: %w"
    THEN {e[2], e[3][2], e[3][4]} \cup { e[3][3][j] : j \in 1..Len(e[3][3]) }
    ELSE {}
\* The strings a printed line is made of, besides its format.
LineStrings(line) ==
    IF line[1] \in {"Using IdP provider: %s", "[LEGACY] Using keyset: %s"}
    THEN {line[2]}
    ELSE IF line[1] = "Warning: Could not retrieve keyset environment variables: %v"
    THEN ErrorStrings(line[2])
    ELSE IF line[1] \in {"export %s=%s", "  %s=%s", "Key: %s (expires: %s)"}
    THEN {line[2]}
    ELSE {}
Printed == { stdout[i] : i \in 1..Len(stdout) } \cup { stderr[i] : i \in 1..Len(stderr) }
SentTokens == { calls[i].args[1] : i \in 1..Len(calls) }

\* C24: the mint command never writes the OIDC token to stdout or stderr,
\* on any path: no printed line holds the token that was resolved, which
\* appears in the requests sent to the broker only.
C24_TokenNeverPrinted ==
    (command = "mint" /\ token # "") =>
        /\ \A line \in Printed : token \notin LineStrings(line)
        /\ SentTokens \subseteq {token}

IsDurationDiagnostic(line) == line[1] = "Duration override: %d seconds"
IsLookupWarning(line) ==
    line[1] = "Warning: Could not retrieve keyset environment variables: %v"
\* The lines written before the transport is called.
IsPreludeLine(line) ==
    \/ IsTokenSourceDiagnostic(line) \/ IsIdpDiagnostic(line)
    \/ IsModeDiagnostic(line) \/ IsDurationDiagnostic(line)
MintFinished == command = "mint" /\ Finished
IsJSONDocument(line) == Len(line) = 2 /\ line[1] = "%s" /\ line[2].indent = "  "
EndsWith(seq, tail) ==
    /\ Len(seq) >= Len(tail)
    /\ \A i \in 1..Len(tail) : seq[Len(seq) - Len(tail) + i] = tail[i]
\* What the env format writes for the result this invocation received, in
\* some order of iteration over the maps.
EnvOutputs ==
    IF KeysOrAll
    THEN { outputKeysAsEnvVars(keyResponses, ko, vo) :
             ko \in Perms(DOMAIN keyResponses), vo \in VarOrders(keyResponses) }
    ELSE { outputAsEnvVars(credentials[1], keysetVars, order) :
             order \in Perms(DOMAIN keysetVars) }
SameAsEnv ==
    \E o \in EnvOutputs :
        /\ stdout = o.out
        /\ EndsWith(stderr, o.diag)
        /\ \A i \in 1..(Len(stderr) - Len(o.diag)) :
              IsPreludeLine(stderr[i]) \/ IsLookupWarning(stderr[i])
JSONOnStdout == Len(stdout) = 1 /\ IsJSONDocument(stdout[1])

C25_WitnessJSON ==
    /\ command = "mint" /\ flags.format = "json" /\ KeysOrAll
    /\ pc = "Exited" /\ exitCode = 0 /\ JSONOnStdout
    /\ DOMAIN keyResponses # {}

\* C25 witness of the lookup warning under the JSON format.
C25_WitnessJSONWarning ==
    /\ command = "mint" /\ flags.format = "json" /\ flags.keyset # ""
    /\ pc = "Exited" /\ exitCode = 0 /\ JSONOnStdout
    /\ \E i \in 1..Len(stderr) : IsLookupWarning(stderr[i])

EnvMode == command = "mint" /\ flags.format # "json"
IsSuccessOrHint(line) ==
    line[1] \in {"Credentials minted successfully (expires: %s)",
                 "To use: eval \"$(voidkey mint)\"",
                 "Successfully minted %d keys with %d environment variables",
                 "To use: eval \"$(voidkey mint --keys MINIO_CREDENTIALS)\""}

C26_WitnessWarning ==
    /\ EnvMode /\ pc = "Exited" /\ exitCode = 0
    /\ \E i \in 1..Len(stderr) : IsLookupWarning(stderr[i])
    /\ Len(stdout) >= 3

(***************************************************************************)
(* Properties of the mint command without --keyset.                        *)
(***************************************************************************)
NothingToMint == Len(flags.keys) = 0 /\ ~flags.all

\* C27: in the revision of the mint command without --keyset, an
\* invocation with no keys and without --all never calls the transport and
\* writes nothing to stdout; once its token has passed validation it fails
\* with 'must specify either specific keys (--keys) or all keys (--all)',
\* after the IdP diagnostic and before any mode diagnostic, and exits with
\* 1.  An invocation without a token fails at the token validation, which
\* comes first.  With keys or --all the error is never returned.
C27_KeysOrAllRequired ==
    command = "mint (keys only)" =>
        /\ NothingToMint =>
              /\ calls = <<>> /\ requests = <<>> /\ stdout = <<>>
              /\ pc \notin {"MintKeys", "AwaitMintKeys", "RenderKeys", "Done"}
              /\ pc \in {"Error", "Exited"} =>
                    err = IF token = "" THEN MissingTokenError ELSE MustSpecifyKeys
              /\ pc = "Exited" => exitCode = 1
        /\ err = MustSpecifyKeys =>
              /\ NothingToMint /\ token # ""
              /\ IsIdpDiagnostic(stderr[Len(stderr)])
              /\ \A i \in 1..Len(stderr) : ~IsModeDiagnostic(stderr[i])

\* C27 witness: an invocation with a token, no keys and no --all ended with
\* the error, without a request and with an empty stdout.
C27_Witness ==
    /\ command = "mint (keys only)" /\ NothingToMint /\ flags.token # ""
    /\ pc = "Exited" /\ exitCode = 1 /\ err = MustSpecifyKeys
    /\ requests = <<>> /\ stdout = <<>> /\ Len(stderr) = 1

\* C27 witness of an accepted invocation: with --all the keys were minted.
C27_WitnessAll ==
    /\ command = "mint (keys only)" /\ flags.all /\ Len(flags.keys) = 0
    /\ pc = "Exited" /\ exitCode = 0 /\ Len(requests) = 1 /\ Len(stdout) > 0

(***************************************************************************)
(* The environment of a shell that evaluates the export lines in order: a  *)
(* later export of a name replaces an earlier one.                         *)
(***************************************************************************)
ExportedNames(lines) == { lines[i][2] : i \in 1..Len(lines) }
LastExport(lines, name) ==
    lines[CHOOSE i \in 1..Len(lines) :
            /\ lines[i][2] = name
            /\ \A j \in (i + 1)..Len(lines) : lines[j][2] # name][3]
SameEnvironment(a, b) ==
    /\ ExportedNames(a) = ExportedNames(b)
    /\ \A n \in ExportedNames(a) : LastExport(a, n) = LastExport(b, n)

\* C28: for the response the broker returned, evaluating the env-mode
\* stdout gives the same shell environment whatever order the maps were
\* iterated in, and no name is exported twice with different values.
C28_EnvironmentIsDeterministic ==
    (EnvMode /\ Finished) =>
        /\ \A i, j \in 1..Len(stdout) :
              stdout[i][2] = stdout[j][2] => stdout[i][3] = stdout[j][3]
        /\ \A o \in EnvOutputs : SameEnvironment(o.out, stdout)

(***************************************************************************)
(* Properties of config set followed by config get.                        *)
(***************************************************************************)
GetAfterSet ==
    /\ command = "config get" /\ previous # <<>>
    /\ previous[1].exitCode = 0 /\ args[1] = previous[1].args[1]
    /\ pc \in {"Done", "Error", "Exited"}
ValueSet == previous[1].args[2]
DefaultOf(key) ==
    IF key = "server" THEN "http://localhost:3000"
    ELSE IF key = "token-env" THEN "OIDC_TOKEN"
    ELSE ""

\* C29 as stated: after `config set key v` has succeeded, `config get key`
\* prints v, for every key and every v, the empty string included.
C29_GetPrintsWhatWasSet ==
    GetAfterSet => err = NoError /\ stdout = << <<"%s", ValueSet>> >>

\* C29 amended: after `config set key v` has succeeded, `config get key`
\* succeeds and prints v when v is not empty; for an empty v it prints the
\* default of the key, http://localhost:3000 for server and OIDC_TOKEN for
\* token-env, and the empty string for idp, which has no default.
C29_GetPrintsWhatWasSetOrDefault ==
    GetAfterSet =>
        /\ err = NoError
        /\ stdout = << <<"%s", IF ValueSet # "" THEN ValueSet ELSE DefaultOf(args[1])>> >>

\* C29 witness: config set token-env with the empty value succeeded, and
\* the config get token-env that followed printed OIDC_TOKEN.
C29_Witness ==
    /\ GetAfterSet /\ pc = "Exited" /\ exitCode = 0
    /\ previous[1].args = <<"token-env", "">>
    /\ stdout = << <<"%s", "OIDC_TOKEN">> >>

\* C29 witness of a value that comes back: server set to a value, printed.
C29_WitnessRoundTrip ==
    /\ GetAfterSet /\ pc = "Exited" /\ exitCode = 0
    /\ previous[1].args = <<"server", "GITHUB_TOKEN">>
    /\ stdout = << <<"%s", "GITHUB_TOKEN">> >>

(***************************************************************************)
(* Properties of the keysets commands.                                     *)
(***************************************************************************)
TokenBasedOps == {"GetAvailableKeysetsWithToken", "GetKeysetKeysWithToken"}
SubjectBasedOps == {"GetAvailableKeysets", "GetKeysetKeys"}
KeysetsEnded == pc \in {"Done", "Error", "Exited"}
NoLookupPossible ==
    \/ flags.token = "" /\ flags.subject = ""
    \/ command = "keysets show" /\ flags.keyset = ""
ListOps == {"GetAvailableKeysetsWithToken", "GetAvailableKeysets"}

\* C30: keysets list and keysets show make at most one transport call, and
\* which one is decided by the flags alone: with a non-empty --token the
\* token-based call, with that token, whatever --subject is; with an empty
\* token and a non-empty --subject the subject-based call; with both empty,
\* or for show with an empty keyset name, an error and no HTTP request.  A
\* call that returns a nil result without an error makes the command print
\* one 'not found' line and succeed.
C30_KeysetsLookupChoice ==
    command \in KeysetsCommands =>
        /\ Len(calls) <= 1 /\ Len(requests) = Len(calls)
        /\ \A i \in 1..Len(calls) :
              /\ calls[i].op \in ListOps <=> command = "keysets list"
              /\ flags.token # "" =>
                    calls[i].op \in TokenBasedOps /\ calls[i].args[1] = flags.token
              /\ flags.token = "" =>
                    /\ calls[i].op \in SubjectBasedOps
                    /\ flags.subject # "" /\ calls[i].args[1] = flags.subject
              /\ command = "keysets show" =>
                    flags.keyset # "" /\ calls[i].args[2] = flags.keyset
        /\ NoLookupPossible =>
              /\ calls = <<>> /\ requests = <<>> /\ stdout = <<>>
              /\ pc # "AwaitKeysets"
              /\ KeysetsEnded =>
                    err = IF command = "keysets show" /\ flags.keyset = ""
                          THEN KeysetRequired ELSE SubjectOrTokenRequired
              /\ pc = "Exited" => exitCode = 1
        /\ (KeysetsEnded /\ ~NoLookupPossible) => Len(calls) = 1
        /\ \A i \in 1..Len(returns) :
              (returns[i].err = NoError /\ returns[i].result = Nil) =>
                  /\ err = NoError
                  /\ stdout = << NotFoundLine(command, flags) >>
                  /\ pc = "Exited" => exitCode = 0

\* C30 witness: keysets show with a token and a subject made the
\* token-based call only and printed the keys.
C30_Witness ==
    /\ command = "keysets show" /\ flags.token # "" /\ flags.subject # ""
    /\ pc = "Exited" /\ exitCode = 0
    /\ Len(calls) = 1 /\ calls[1].op = "GetKeysetKeysWithToken"
    /\ Len(stdout) > 1

\* C30 witness of a subject-based listing.
C30_WitnessSubject ==
    /\ command = "keysets list" /\ flags.token = "" /\ flags.subject # ""
    /\ pc = "Exited" /\ exitCode = 0
    /\ Len(calls) = 1 /\ calls[1].op = "GetAvailableKeysets"

\* C30 witness of a nil result: the command printed the 'not found' line
\* and exited with 0.
C30_WitnessNotFound ==
    /\ command = "keysets list" /\ pc = "Exited" /\ exitCode = 0
    /\ Len(returns) = 1 /\ returns[1].result = Nil /\ returns[1].err = NoError
    /\ stdout = << <<"No keysets found for the provided token">> >>

\* C30 witness of a refused invocation: neither a token nor a subject.
C30_WitnessNeither ==
    /\ command = "keysets list" /\ flags.token = "" /\ flags.subject = ""
    /\ pc = "Exited" /\ exitCode = 1 /\ requests = <<>>
====
